---- MODULE Spec2Model ----
(***************************************************************************)
(* FoodieSpot: the recommendation engine (recommendation_engine.py) over   *)
(* a restaurants table, a request split at its selects, between which the  *)
(* loader (data.py) and the agent's sample data insert into the table or   *)
(* empty it; the scorer operations of spec section 4.1, and                *)
(* the availability and reservation endpoints (app.py) over a              *)
(* reservations table, each handler split at its store calls so that two   *)
(* requests interleave; the agent RestaurantAI (ai_agent.py): _call_api    *)
(* with its Supabase fallback and the four tools, split at the store calls *)
(* on the reservations table so that other clients' reservations arrive    *)
(* between them, and chat over the context of the module's one agent,      *)
(* split at each read and write of the context so that the calls of two    *)
(* sessions' threads overlap; and make_api_request of the Streamlit client *)
(* (streamlit_app.py) over st.session_state, split at its request and its  *)
(* two writes, between which a rerun stops the script.                     *)
(*                                                                         *)
(* Conventions.  Strings whose characters matter (cuisine, city) are       *)
(* sequences of one-character strings, so that .lower(), the `in`          *)
(* substring test and ilike '%x%' are computed, not assumed.  Ratings are  *)
(* tenths (47 is 4.7), scores are hundredths (7510 is 75.10).  A            *)
(* preferences dict is a function whose domain is the keys it holds.       *)
(***************************************************************************)
EXTENDS Integers, Sequences, FiniteSets, TLC

VARIABLES store, op, args, out, reservations, req, agent, context, history,
          session

vars == <<store, op, args, out, reservations, req, agent, context, history, session>>

\* SQL NULL in the nullable integer column capacity.
NULL == -1

(* ---------------------------- bounds ----------------------------------- *)
MaxStore == 3
MaxLimit == 2
MaxElapsed == 1
MaxCandidates == 6
MaxPriced == 3
MaxTurns == 4
MaxOverlaps == 1
MaxRequests == 3

(* ---------------------------- strings ---------------------------------- *)
Italian == <<"I","t","a","l","i","a","n">>
italian == <<"i","t","a","l","i","a","n">>
ItalianAmerican == <<"I","t","a","l","i","a","n","-","A","m","e","r","i","c","a","n">>
Mexican == <<"M","e","x","i","c","a","n">>
Mediterranean == <<"M","e","d","i","t","e","r","r","a","n","e","a","n">>
mediterranean == <<"m","e","d","i","t","e","r","r","a","n","e","a","n">>
european == <<"e","u","r","o","p","e","a","n">>
french == <<"f","r","e","n","c","h">>
chinese == <<"c","h","i","n","e","s","e">>
japanese == <<"j","a","p","a","n","e","s","e">>
thai == <<"t","h","a","i">>
asian == <<"a","s","i","a","n">>
indian == <<"i","n","d","i","a","n">>
mexican == <<"m","e","x","i","c","a","n">>
american == <<"a","m","e","r","i","c","a","n">>
latin == <<"l","a","t","i","n">>
NYC == <<"N","Y","C">>
nyc == <<"n","y","c">>
Boston == <<"B","o","s","t","o","n">>

UpperToLower ==
  [c \in {"A","B","C","D","E","F","G","H","I","J","K","L","M","N","O","P",
          "Q","R","S","T","U","V","W","X","Y","Z"} |->
     CASE c = "A" -> "a" [] c = "B" -> "b" [] c = "C" -> "c" [] c = "D" -> "d"
       [] c = "E" -> "e" [] c = "F" -> "f" [] c = "G" -> "g" [] c = "H" -> "h"
       [] c = "I" -> "i" [] c = "J" -> "j" [] c = "K" -> "k" [] c = "L" -> "l"
       [] c = "M" -> "m" [] c = "N" -> "n" [] c = "O" -> "o" [] c = "P" -> "p"
       [] c = "Q" -> "q" [] c = "R" -> "r" [] c = "S" -> "s" [] c = "T" -> "t"
       [] c = "U" -> "u" [] c = "V" -> "v" [] c = "W" -> "w" [] c = "X" -> "x"
       [] c = "Y" -> "y" [] c = "Z" -> "z"]

\* str.lower()
Lower(s) ==
  [i \in 1..Len(s) |-> IF s[i] \in DOMAIN UpperToLower THEN UpperToLower[s[i]] ELSE s[i]]

\* Python's `a in b` on strings: a occurs in b as a contiguous substring
\* (the empty string occurs in every string).
IsSubstring(a, b) ==
  \E i \in 1..(Len(b) + 1) :
     /\ i + Len(a) - 1 <= Len(b)
     /\ SubSeq(b, i, i + Len(a) - 1) = a

\* The falsy values a preference key can hold: "" for the text keys, 0
\* for the numeric one.
FalsyOf(k) ==
  IF k \in {"cuisine", "city"} THEN {<<>>}
  ELSE IF k = "min_rating" THEN {0} ELSE {""}

\* `if preferences.get(k):` the key is present and its value is truthy.
Has(preferences, k) == k \in DOMAIN preferences /\ preferences[k] \notin FalsyOf(k)

Min(a, b) == IF a <= b THEN a ELSE b
Max(a, b) == IF a >= b THEN a ELSE b

(* --------------------------- the table --------------------------------- *)
\* Rows of the restaurants table (ai_agent.py schema: cuisine, city,
\* price_range, rating DECIMAL(2,1), capacity INTEGER DEFAULT 50, nullable).
Catalogue ==
  { [id |-> 1, cuisine |-> Italian,         city |-> NYC,    price_range |-> "$$",   rating |-> 47, capacity |-> 60],
    [id |-> 2, cuisine |-> ItalianAmerican, city |-> Boston, price_range |-> "$$$",  rating |-> 42, capacity |-> 10],
    [id |-> 3, cuisine |-> Mexican,         city |-> NYC,    price_range |-> "$",    rating |-> 40, capacity |-> 100],
    [id |-> 4, cuisine |-> Mediterranean,   city |-> Boston, price_range |-> "$$",   rating |-> 32, capacity |-> 50],
    [id |-> 5, cuisine |-> Italian,         city |-> NYC,    price_range |-> "$$$$", rating |-> 45, capacity |-> NULL],
    [id |-> 6, cuisine |-> Mediterranean,   city |-> NYC,    price_range |-> "$$",   rating |-> 37, capacity |-> 30] }

\* Tables: up to MaxStore distinct rows, in any physical order.
Stores ==
  UNION { { s \in [1..n -> Catalogue] : \A i, j \in 1..n : i # j => s[i].id # s[j].id }
          : n \in 0..MaxStore }

\* A dict without one of its keys.
WithoutKey(d, k) == [x \in DOMAIN d \ {k} |-> d[x]]

\* The dicts {} and {k: v} for v in vs.
OptionalKey(k, vs) == {<<>>} \cup { (k :> v) : v \in vs }

\* The preferences the engine is given: the JSON body of a POST, any of
\* its keys missing, or the dict the GET branch builds from the query
\* string, in which min_rating is the one given or 4.0.
Preferences ==
  { c @@ ci @@ p @@ m :
      c \in OptionalKey("cuisine", {italian, Mexican, <<>>}),
      ci \in OptionalKey("city", {nyc}),
      p \in OptionalKey("price_range", {"$$", "cheap"}),
      m \in OptionalKey("min_rating", {40, 45}) }

\* Which of the three store calls of one request raise.
Failures == [primary : BOOLEAN, relaxed : BOOLEAN, unfiltered : BOOLEAN]

(* ------------------------ the query builder ---------------------------- *)
\* column ILIKE '%pattern%'
ILike(value, pattern) == IsSubstring(Lower(pattern), Lower(value))

RowMatchesFilters(r, preferences) ==
  /\ Has(preferences, "cuisine") => ILike(r.cuisine, preferences.cuisine)
  /\ Has(preferences, "city") => ILike(r.city, preferences.city)
  /\ Has(preferences, "price_range") => r.price_range = preferences.price_range
  /\ Has(preferences, "min_rating") => r.rating >= preferences.min_rating

_apply_filters(rows, preferences) ==
  SelectSeq(rows, LAMBDA r : RowMatchesFilters(r, preferences))

\* Insert the keyed item x = <<key, item>> into a sequence of keyed items
\* already in non-increasing key order, after every element whose key is
\* >= the key of x: one step of a stable descending sort.
RECURSIVE InsertDesc(_, _)
InsertDesc(x, s) ==
  IF s = <<>> THEN <<x>>
  ELSE IF Head(s)[1] >= x[1] THEN <<Head(s)>> \o InsertDesc(x, Tail(s))
  ELSE <<x>> \o s

RECURSIVE SortDescFrom(_, _)
SortDescFrom(acc, s) ==
  IF s = <<>> THEN acc ELSE SortDescFrom(InsertDesc(Head(s), acc), Tail(s))

\* list.sort(key=..., reverse=True) and ORDER BY ... DESC over a sequence
\* of <<key, item>> pairs: stable, equal keys keep their input order.
SortDesc(keyed) ==
  LET sorted == SortDescFrom(<<>>, keyed)
  IN [i \in 1..Len(keyed) |-> sorted[i][2]]

OrderByRatingDesc(rows) ==
  SortDesc([i \in 1..Len(rows) |-> <<rows[i].rating, rows[i]>>])

\* .limit(n)
Limit(rows, n) == SubSeq(rows, 1, Min(n, Len(rows)))

\* The elements of a sequence.
Range(s) == { s[i] : i \in 1..Len(s) }

(* ------------------------ recommendation engine ------------------------ *)
\* related_cuisines.get(cuisine1, []) of _is_related_cuisine
RelatedCuisines(cuisine1) ==
  CASE cuisine1 = italian  -> {mediterranean, european}
    [] cuisine1 = french   -> {european, mediterranean}
    [] cuisine1 = chinese  -> {asian, japanese, thai}
    [] cuisine1 = japanese -> {asian, chinese, thai}
    [] cuisine1 = thai     -> {asian, chinese, japanese}
    [] cuisine1 = indian   -> {asian, thai}
    [] cuisine1 = mexican  -> {american, latin}
    [] cuisine1 = american -> {mexican, latin}
    [] OTHER -> {}

_is_related_cuisine(cuisine1, cuisine2) == cuisine2 \in RelatedCuisines(cuisine1)

\* price_levels.get(p, 2)
PriceLevel(p) ==
  CASE p = "$" -> 1 [] p = "$$" -> 2 [] p = "$$$" -> 3 [] p = "$$$$" -> 4 [] OTHER -> 2

Abs(x) == IF x < 0 THEN 0 - x ELSE x

_is_acceptable_price_range(preferred, restaurant) ==
  Abs(PriceLevel(preferred) - PriceLevel(restaurant)) <= 1

\* The comparison `capacity >= 100` raises TypeError on a NULL capacity.
ScoreRaises(restaurant, preferences) == restaurant.capacity = NULL

\* _calculate_restaurant_score, in hundredths; defined when ~ScoreRaises.
_calculate_restaurant_score(restaurant, preferences) ==
  LET ratingScore == restaurant.rating * 80
      preferred_cuisine == Lower(preferences.cuisine)
      restaurant_cuisine == Lower(restaurant.cuisine)
      cuisineScore ==
        IF Has(preferences, "cuisine")
        THEN IF \/ IsSubstring(preferred_cuisine, restaurant_cuisine)
                \/ IsSubstring(restaurant_cuisine, preferred_cuisine)
             THEN 2500
             ELSE IF _is_related_cuisine(preferred_cuisine, restaurant_cuisine)
                  THEN 1500 ELSE 0
        ELSE 1250
      priceScore ==
        IF Has(preferences, "price_range")
        THEN IF preferences.price_range = restaurant.price_range THEN 2000
             ELSE IF _is_acceptable_price_range(preferences.price_range,
                                                restaurant.price_range)
                  THEN 1000 ELSE 0
        ELSE 1000
      capacity == restaurant.capacity
      capacityScore ==
        IF capacity >= 100 THEN 1500
        ELSE IF capacity >= 50 THEN 1200
        ELSE IF capacity >= 20 THEN 800
        ELSE 500
  IN ratingScore + cuisineScore + priceScore + capacityScore

\* The row with its 'recommendation_score' key set.
WithScore(restaurant, score) ==
  [k \in DOMAIN restaurant \cup {"recommendation_score"} |->
     IF k = "recommendation_score" THEN score ELSE restaurant[k]]

\* A scoring pass whose sort puts equal scores in reverse input order.
_score_restaurants_ties_reversed(restaurants, preferences) ==
  LET n == Len(restaurants)
      scored_restaurants ==
        [i \in 1..n |->
           WithScore(restaurants[n + 1 - i],
                     _calculate_restaurant_score(restaurants[n + 1 - i], preferences))]
  IN SortDesc([i \in 1..n |->
                 <<scored_restaurants[i].recommendation_score, scored_restaurants[i]>>])

\* _score_restaurants, called when no row makes the scorer raise.
_score_restaurants(restaurants, preferences) ==
  LET sorted(scored_restaurants) ==
        SortDesc([i \in 1..Len(scored_restaurants) |->
                    <<scored_restaurants[i].recommendation_score, scored_restaurants[i]>>])
  IN sorted([i \in 1..Len(restaurants) |->
               WithScore(restaurants[i],
                         _calculate_restaurant_score(restaurants[i], preferences))])

\* The criteria parts of _generate_message.
MessageParts(preferences) ==
     (IF Has(preferences, "cuisine") THEN <<[part |-> "cuisine", value |-> preferences.cuisine]>> ELSE <<>>)
  \o (IF Has(preferences, "city") THEN <<[part |-> "in", value |-> preferences.city]>> ELSE <<>>)
  \o (IF Has(preferences, "price_range") THEN <<[part |-> "price range", value |-> preferences.price_range]>> ELSE <<>>)
  \o (IF Has(preferences, "min_rating") THEN <<[part |-> "star rating", value |-> preferences.min_rating]>> ELSE <<>>)

\* A message is its literal template, the count and the formatted values.
_generate_message(preferences, count) ==
  IF count = 0
  THEN [template |-> "No restaurants found matching your criteria", count |-> 0, values |-> <<>>]
  ELSE IF MessageParts(preferences) # <<>>
       THEN [template |-> "Found {count} excellent restaurants for {criteria}",
             count |-> count, values |-> MessageParts(preferences)]
       ELSE [template |-> "Here are {count} top-rated restaurants for you",
             count |-> count, values |-> <<>>]

_generate_fallback_message(preferences) ==
  IF Has(preferences, "cuisine")
  THEN [template |-> "We couldn't find exact matches for {cuisine} cuisine, but here are some highly-rated alternatives",
        count |-> 0, values |-> <<preferences.cuisine>>]
  ELSE IF Has(preferences, "city")
       THEN [template |-> "Here are some top restaurants, including options near {city}",
             count |-> 0, values |-> <<preferences.city>>]
       ELSE [template |-> "Here are some highly-rated restaurants you might enjoy",
             count |-> 0, values |-> <<>>]

\* An exception leaving a block.
Raised == [raised |-> TRUE]

\* The relaxed rating threshold of fallback strategy 1 (tenths).
RelaxedMinRating(preferences) ==
  IF Has(preferences, "min_rating") THEN Max(30, preferences.min_rating - 10) ELSE 35

\* A strategy 1 query that keeps the cuisine, city and price filters.
RelaxedQuery_filters_kept(table, preferences, limit) ==
  Limit(OrderByRatingDesc(SelectSeq(_apply_filters(table, WithoutKey(preferences, "min_rating")),
          LAMBDA r : r.rating >= RelaxedMinRating(preferences))), limit)

\* Strategy 1 query: rating >= relaxed threshold, best first, limit rows.
RelaxedQuery(table, preferences, limit) ==
  Limit(OrderByRatingDesc(SelectSeq(table,
          LAMBDA r : r.rating >= RelaxedMinRating(preferences))), limit)

\* Strategy 2 query: any rows, limit rows.
UnfilteredQuery(table, limit) == Limit(table, limit)

\* Strategy 1 gave no rows: the try block goes on to strategy 2.
NothingFound == [nothing_found |-> TRUE]

\* A strategy 1 that returns what its query gave, rows or none.
Strategy1_returns_nothing(table, preferences, limit, fail, elapsed) ==
  IF fail.relaxed THEN Raised
  ELSE LET data == RelaxedQuery(table, preferences, limit)
       IN [recommendations |-> data, fallback_used |-> TRUE,
           total_count |-> Len(data), response_time |-> elapsed,
           message |-> _generate_fallback_message(preferences)]

\* Strategy 1 of _get_fallback_recommendations: the relaxed select on the
\* table as it is when the select is made, and the return when it gives
\* rows.
Strategy1(table, preferences, limit, fail, elapsed) ==
  IF fail.relaxed THEN Raised
  ELSE LET data == RelaxedQuery(table, preferences, limit)
       IN IF data # <<>>
          THEN [recommendations |-> data, fallback_used |-> TRUE,
                total_count |-> Len(data), response_time |-> elapsed,
                message |-> _generate_fallback_message(preferences)]
          ELSE NothingFound

\* Strategy 2 of _get_fallback_recommendations: the unfiltered select on
\* the table as it is when the select is made, and the return.
Strategy2(table, limit, fail, elapsed) ==
  IF fail.unfiltered THEN Raised
  ELSE LET any == UnfilteredQuery(table, limit)
       IN [recommendations |-> any, fallback_used |-> TRUE,
           total_count |-> Len(any), response_time |-> elapsed,
           message |-> [template |-> "Here are some popular restaurants you might enjoy",
                        count |-> 0, values |-> <<>>]]

\* A fallback whose try block has no except clause.
FallbackExcept_reraised(tried, elapsed) == tried

\* The except clause of _get_fallback_recommendations around what its try
\* block gave.
FallbackExcept(tried, elapsed) ==
  IF tried = Raised
  THEN [recommendations |-> <<>>, fallback_used |-> TRUE, total_count |-> 0,
        response_time |-> elapsed,
        message |-> [template |-> "Unable to load recommendations at this time",
                     count |-> 0, values |-> <<>>]]
  ELSE tried

\* The try block of _get_fallback_recommendations when both selects read
\* one table.
FallbackTry(table, preferences, limit, fail, elapsed) ==
  LET first(tried) ==
        IF tried = NothingFound THEN Strategy2(table, limit, fail, elapsed) ELSE tried
  IN first(Strategy1(table, preferences, limit, fail, elapsed))

\* _get_fallback_recommendations when nothing writes the table between its
\* selects.
_get_fallback_recommendations(table, preferences, limit, fail, elapsed) ==
  FallbackExcept(FallbackTry(table, preferences, limit, fail, elapsed), elapsed)

\* The primary query: filters, ORDER BY rating DESC, LIMIT limit * 2.
PrimaryQuery(table, preferences, limit) ==
  Limit(OrderByRatingDesc(_apply_filters(table, preferences)), limit * 2)

\* The scored list returned whole.
TopRecommendations_unsliced(scored_restaurants, limit) == scored_restaurants

\* scored_restaurants[:limit]
TopRecommendations(scored_restaurants, limit) == Limit(scored_restaurants, limit)

\* The primary query gave no rows: get_recommendations returns what the
\* fallback returns.
NoRestaurants == [no_restaurants |-> TRUE]

\* The try block of get_recommendations up to the call of the fallback:
\* the primary select on the table as it is when the select is made,
\* scoring, and the return.
RecommendTry(table, preferences, limit, fail, elapsed) ==
  LET recommended(restaurants, top_recommendations) ==
        [recommendations |-> top_recommendations,
         fallback_used |-> FALSE,
         total_count |-> Len(restaurants),
         response_time |-> elapsed,
         message |-> _generate_message(preferences, Len(top_recommendations))]
      fetched(restaurants) ==
        IF restaurants = <<>>
        THEN NoRestaurants
        ELSE IF \E i \in 1..Len(restaurants) : ScoreRaises(restaurants[i], preferences)
             THEN Raised
             ELSE recommended(restaurants,
                              TopRecommendations(_score_restaurants(restaurants, preferences),
                                                 limit))
  IN IF fail.primary THEN Raised
     ELSE fetched(PrimaryQuery(table, preferences, limit))

\* What the try block of get_recommendations gave sends the request to the
\* fallback: no rows (line 58), or an exception (line 78).
GoesToFallback(tried) == tried = Raised \/ tried = NoRestaurants

\* get_recommendations when nothing writes the table between its selects.
get_recommendations(table, preferences, limit, fail, elapsed) ==
  LET guarded(tried) ==
        IF GoesToFallback(tried)
        THEN _get_fallback_recommendations(table, preferences, limit, fail, elapsed)
        ELSE tried
  IN guarded(RecommendTry(table, preferences, limit, fail, elapsed))

(* ---------------- scorer operations of spec section 4.1 ---------------- *)
\* The candidate lists the restaurant store hands to the scorer: up to
\* MaxCandidates restaurants, best rating first.
CandidateLists ==
  UNION { { [i \in 1..n |-> [id |-> i, rating |-> rs[i]]] :
              rs \in { q \in [1..n -> {40, 45}] :
                         \A i \in 1..n : i < n => q[i] >= q[i + 1] } }
          : n \in 0..MaxCandidates }

\* What the availability store answers for one restaurant; a failed check
\* counts as not available.
AvailabilityAnswers == {"yes", "no", "error"}

IsAvailable(restaurant, answers) == answers[restaurant.id] = "yes"

\* A ladder that hands back every unavailable restaurant when none is free.
check_availability_and_apply_fallback_untruncated(restaurants, answers) ==
  LET available == SelectSeq(restaurants, LAMBDA r : IsAvailable(r, answers))
      unavailable == SelectSeq(restaurants, LAMBDA r : ~IsAvailable(r, answers))
  IN IF Len(available) >= 3
     THEN [restaurants |-> available, fallback_used |-> FALSE,
           available_count |-> Len(available), total_count |-> Len(restaurants)]
     ELSE IF Len(available) >= 1
          THEN [restaurants |-> available \o Limit(OrderByRatingDesc(unavailable), 2),
                fallback_used |-> TRUE,
                available_count |-> Len(available), total_count |-> Len(restaurants)]
          ELSE [restaurants |-> unavailable, fallback_used |-> TRUE,
                available_count |-> 0, total_count |-> Len(restaurants)]

\* A ladder that augments one or two available restaurants with a single
\* unavailable one.
check_availability_and_apply_fallback_one_extra(restaurants, answers) ==
  LET available == SelectSeq(restaurants, LAMBDA r : IsAvailable(r, answers))
      unavailable == SelectSeq(restaurants, LAMBDA r : ~IsAvailable(r, answers))
  IN IF Len(available) >= 3
     THEN [restaurants |-> available, fallback_used |-> FALSE,
           available_count |-> Len(available), total_count |-> Len(restaurants)]
     ELSE IF Len(available) >= 1
          THEN [restaurants |-> available \o Limit(OrderByRatingDesc(unavailable), 1),
                fallback_used |-> TRUE,
                available_count |-> Len(available), total_count |-> Len(restaurants)]
          ELSE [restaurants |-> Limit(unavailable, 5), fallback_used |-> TRUE,
                available_count |-> 0, total_count |-> Len(restaurants)]

\* A ladder that still augments when exactly three are available.
check_availability_and_apply_fallback_late_rung(restaurants, answers) ==
  LET available == SelectSeq(restaurants, LAMBDA r : IsAvailable(r, answers))
      unavailable == SelectSeq(restaurants, LAMBDA r : ~IsAvailable(r, answers))
  IN IF Len(available) >= 4
     THEN [restaurants |-> available, fallback_used |-> FALSE,
           available_count |-> Len(available), total_count |-> Len(restaurants)]
     ELSE IF Len(available) >= 1
          THEN [restaurants |-> available \o Limit(OrderByRatingDesc(unavailable), 2),
                fallback_used |-> TRUE,
                available_count |-> Len(available), total_count |-> Len(restaurants)]
          ELSE [restaurants |-> Limit(unavailable, 5), fallback_used |-> TRUE,
                available_count |-> 0, total_count |-> Len(restaurants)]

\* check_availability_and_apply_fallback: partition the candidates by the
\* availability answers, then the three rungs of the fallback ladder.
check_availability_and_apply_fallback(restaurants, answers) ==
  LET available == SelectSeq(restaurants, LAMBDA r : IsAvailable(r, answers))
      unavailable == SelectSeq(restaurants, LAMBDA r : ~IsAvailable(r, answers))
  IN IF Len(available) >= 3
     THEN [restaurants |-> available, fallback_used |-> FALSE,
           available_count |-> Len(available), total_count |-> Len(restaurants)]
     ELSE IF Len(available) >= 1
          THEN [restaurants |-> available \o Limit(OrderByRatingDesc(unavailable), 2),
                fallback_used |-> TRUE,
                available_count |-> Len(available), total_count |-> Len(restaurants)]
          ELSE [restaurants |-> Limit(unavailable, 5), fallback_used |-> TRUE,
                available_count |-> 0, total_count |-> Len(restaurants)]

PriceTiers == {"$", "$$", "$$$", "$$$$"}

\* Budget words of filter_by_price.
BudgetWords == {"low", "moderate", "high", "luxury"}

\* The tier a budget word or literal tier symbol stands for; "" when it
\* maps to none.
TierOf(budget_or_tier) ==
  CASE budget_or_tier = "low" -> "$"
    [] budget_or_tier = "moderate" -> "$$"
    [] budget_or_tier = "high" -> "$$$"
    [] budget_or_tier = "luxury" -> "$$$$"
    [] budget_or_tier \in PriceTiers -> budget_or_tier
    [] OTHER -> ""

\* Ordinal position of a tier.
TierIndex(tier) ==
  CASE tier = "$" -> 1 [] tier = "$$" -> 2 [] tier = "$$$" -> 3 [] tier = "$$$$" -> 4

\* The lists filter_by_price is applied to.
PricedLists ==
  UNION { { [i \in 1..n |-> [id |-> i, price_range |-> ts[i]]] :
              ts \in [1..n -> PriceTiers] }
          : n \in 0..MaxPriced }

\* A price filter without the adjacent-tier fallback.
filter_by_price_exact_only(restaurants, budget_or_tier) ==
  LET tier == TierOf(budget_or_tier)
  IN IF tier = "" THEN restaurants
     ELSE SelectSeq(restaurants, LAMBDA r : r.price_range = tier)

\* filter_by_price: exact tier first, else the tiers one step away.
filter_by_price(restaurants, budget_or_tier) ==
  LET tier == TierOf(budget_or_tier)
      exact == SelectSeq(restaurants, LAMBDA r : r.price_range = tier)
  IN IF tier = "" THEN restaurants
     ELSE IF exact # <<>> THEN exact
     ELSE SelectSeq(restaurants,
            LAMBDA r : TierIndex(r.price_range) - TierIndex(tier) \in {-1, 1})

\* An absent cuisine argument (Python None).
None == <<"None">>

MaxCuisineList == 3

\* Cuisines and ratings (in tenths) of the lists handed to filter_by_cuisine.
ListedCuisines == {Italian, italian, ItalianAmerican, Mexican}

ListedRatings == {45, 48}

\* The cuisine arguments: two spellings of one cuisine, empty and absent.
CuisineArguments == {Italian, italian, <<>>, None}

\* Restaurant lists of at most MaxCuisineList entries, in any order.
CuisineLists ==
  UNION { { [i \in 1..n |-> [id |-> i, cuisine |-> cs[i], rating |-> rs[i]]] :
              cs \in [1..n -> ListedCuisines], rs \in [1..n -> ListedRatings] }
          : n \in 0..MaxCuisineList }

\* A cuisine filter that matches substrings, as the data-access layer does.
filter_by_cuisine_fuzzy(restaurants, cuisine) ==
  IF cuisine = None \/ cuisine = <<>> THEN restaurants
  ELSE OrderByRatingDesc(SelectSeq(restaurants, LAMBDA r : ILike(r.cuisine, cuisine)))

\* A cuisine filter that sorts by rating even without a cuisine.
filter_by_cuisine_always_sorted(restaurants, cuisine) ==
  IF cuisine = None \/ cuisine = <<>> THEN OrderByRatingDesc(restaurants)
  ELSE OrderByRatingDesc(SelectSeq(restaurants,
                                   LAMBDA r : Lower(r.cuisine) = Lower(cuisine)))

\* filter_by_cuisine: pass-through without a cuisine; otherwise the
\* restaurants whose cuisine equals it ignoring case, by rating descending.
filter_by_cuisine(restaurants, cuisine) ==
  IF cuisine = None \/ cuisine = <<>> THEN restaurants
  ELSE OrderByRatingDesc(SelectSeq(restaurants,
                                   LAMBDA r : Lower(r.cuisine) = Lower(cuisine)))

(* ------------------- availability and reservations -------------------- *)
\* The two requests that can be in flight at once.
Clients == {1, 2}

\* Requests are accepted while the reservations table holds fewer rows.
MaxReservations == 2

\* date.today(); a date is its distance from today in days.
Today == 0

\* The text of a restaurant id.
IdText(id) == <<"1", "2", "3", "4", "5", "6">>[id]

\* The restaurants table of the reservation endpoints: capacity 10 and
\* capacity NULL.
ReservationRestaurants ==
  << CHOOSE r \in Catalogue : r.id = 2, CHOOSE r \in Catalogue : r.id = 5 >>

AnnEmail == <<"a", "@", "b", ".", "c">>

NotAnEmail == <<"a", "b", ".", "c">>

\* EmailStr: one "@" after a non-empty local part, and a dot inside the
\* domain that follows it.
IsEmail(s) ==
  /\ Cardinality({ i \in 1..Len(s) : s[i] = "@" }) = 1
  /\ \E i \in 2..Len(s) :
        /\ s[i] = "@"
        /\ \E j \in (i + 2)..(Len(s) - 1) : s[j] = "."

\* A complete reservation body for today.
Body(restaurant_id, party_size, time) ==
  [restaurant_id |-> restaurant_id, date |-> Today, time |-> time,
   party_size |-> party_size, user_email |-> AnnEmail, user_name |-> "Ann"]

\* The JSON bodies posted: complete ones, ones with one bad field, ones
\* with one field missing, and the empty body.
RequestBodies ==
  LET b == Body("2", 4, "19:00")
  IN { b, Body("2", 6, "19:00"), Body("2", 6, "20:00"),
       Body("5", 4, "19:00"), Body("9", 4, "19:00"),
       [b EXCEPT !.date = Today - 1],
       [b EXCEPT !.date = Today - 1, !.restaurant_id = "9"],
       [b EXCEPT !.party_size = 0],
       [b EXCEPT !.party_size = 21],
       [b EXCEPT !.user_email = NotAnEmail],
       <<>> }
     \cup { WithoutKey(b, k) : k \in DOMAIN b }

\* The fields of AvailabilityRequest and of ReservationRequest.
RequestFields(endpoint) ==
  {"restaurant_id", "date", "time", "party_size"}
    \cup (IF endpoint = "reservations" THEN {"user_email", "user_name"} ELSE {})

\* Validation that lets any party size through.
ValidationErrors_any_party_size(endpoint, request_data) ==
  LET fields == RequestFields(endpoint)
      given(k) == k \in fields /\ k \in DOMAIN request_data
  IN (fields \ DOMAIN request_data)
     \cup { k \in {"date"} : given(k) /\ request_data.date < Today }
     \cup { k \in {"user_email"} : given(k) /\ ~IsEmail(request_data.user_email) }

\* The fields pydantic rejects: missing ones, a date before today, a party
\* size outside 1..20, a user_email that is no e-mail address.
ValidationErrors(endpoint, request_data) ==
  LET fields == RequestFields(endpoint)
      given(k) == k \in fields /\ k \in DOMAIN request_data
  IN (fields \ DOMAIN request_data)
     \cup { k \in {"date"} : given(k) /\ request_data.date < Today }
     \cup { k \in {"party_size"} : given(k) /\ ~(1 <= request_data.party_size
                                                   /\ request_data.party_size <= 20) }
     \cup { k \in {"user_email"} : given(k) /\ ~IsEmail(request_data.user_email) }

\* A request that is not being handled.
NoRequest ==
  [pc |-> "idle", endpoint |-> "", body |-> <<>>, capacity |-> 0,
   total_reserved |-> 0, rows_read |-> 0, status |-> 0, success |-> FALSE,
   available |-> FALSE, inserted |-> 0, row |-> 0, fault |-> ""]

\* return jsonify(...), status
Answer(r, status, success) ==
  [r EXCEPT !.pc = "done", !.status = status, !.success = success]

\* The outer except clause: 500, whatever was raised.
Failed(r, fault) == [Answer(r, 500, FALSE) EXCEPT !.fault = fault]

\* .eq('id', data.restaurant_id) on the restaurants table
RestaurantById(table, restaurant_id) ==
  SelectSeq(table, LAMBDA r : IdText(r.id) = restaurant_id)

\* column = value; a row in which the column is NULL or absent matches no
\* value.
ColumnIs(r, k, v) == k \in DOMAIN r /\ r[k] = v

\* .eq('restaurant_id', ..).eq('reservation_date', ..).eq('reservation_time', ..)
ReservationsAt(table, data) ==
  SelectSeq(table, LAMBDA r : /\ ColumnIs(r, "restaurant_id", data.restaurant_id)
                              /\ ColumnIs(r, "reservation_date", data.date)
                              /\ ColumnIs(r, "reservation_time", data.time))

\* sum(r['party_size'] for r in reservations)
RECURSIVE SumPartySize(_)
SumPartySize(rows) ==
  IF rows = <<>> THEN 0 ELSE Head(rows).party_size + SumPartySize(Tail(rows))

\* reservation_data, with the id the table gives the new row.
ReservationRow(table, data) ==
  [id |-> Len(table) + 1,
   restaurant_id |-> data.restaurant_id,
   user_email |-> data.user_email,
   user_name |-> data.user_name,
   party_size |-> data.party_size,
   reservation_date |-> data.date,
   reservation_time |-> data.time]

\* The handlers up to the restaurant lookup: the body is required, then
\* validated, then the restaurant is fetched; an exception answers 500.
find_restaurant(endpoint, request_data, table, raises) ==
  LET r == [NoRequest EXCEPT !.endpoint = endpoint, !.body = request_data]
      restaurant_result == RestaurantById(table, request_data.restaurant_id)
  IN IF request_data = <<>> THEN Answer(r, 400, FALSE)
     ELSE IF ValidationErrors(endpoint, request_data) # {} THEN Answer(r, 400, FALSE)
     ELSE IF raises THEN Failed(r, "restaurants query raised")
     ELSE IF restaurant_result = <<>> THEN Answer(r, 404, FALSE)
     ELSE [r EXCEPT !.pc = "found", !.capacity = restaurant_result[1].capacity]

\* A capacity test against the whole capacity, whatever is reserved.
read_reservations_total_ignored(r, table, raises) ==
  LET total_reserved == SumPartySize(ReservationsAt(table, r.body))
      available_capacity == r.capacity - total_reserved
      read == [r EXCEPT !.total_reserved = total_reserved, !.rows_read = Len(table)]
  IN IF raises THEN Failed(r, "reservations query raised")
     ELSE IF r.capacity = NULL THEN Failed(read, "capacity is NULL")
     ELSE IF r.endpoint = "availability"
       THEN [Answer(read, 200, TRUE) EXCEPT
               !.available = (available_capacity >= r.body.party_size)]
     ELSE IF r.capacity < r.body.party_size THEN Answer(read, 409, FALSE)
     ELSE [read EXCEPT !.pc = "checked"]

\* A capacity test that refuses the party that fills the last seats.
read_reservations_last_seats_refused(r, table, raises) ==
  LET total_reserved == SumPartySize(ReservationsAt(table, r.body))
      available_capacity == r.capacity - total_reserved
      read == [r EXCEPT !.total_reserved = total_reserved, !.rows_read = Len(table)]
  IN IF raises THEN Failed(r, "reservations query raised")
     ELSE IF r.capacity = NULL THEN Failed(read, "capacity is NULL")
     ELSE IF r.endpoint = "availability"
       THEN [Answer(read, 200, TRUE) EXCEPT
               !.available = (available_capacity >= r.body.party_size)]
     ELSE IF available_capacity <= r.body.party_size THEN Answer(read, 409, FALSE)
     ELSE [read EXCEPT !.pc = "checked"]

\* The handlers from the reservations query to the capacity test.  A NULL
\* capacity makes the subtraction raise.
read_reservations(r, table, raises) ==
  LET total_reserved == SumPartySize(ReservationsAt(table, r.body))
      available_capacity == r.capacity - total_reserved
      read == [r EXCEPT !.total_reserved = total_reserved, !.rows_read = Len(table)]
  IN IF raises THEN Failed(r, "reservations query raised")
     ELSE IF r.capacity = NULL THEN Failed(read, "capacity is NULL")
     ELSE IF r.endpoint = "availability"
       THEN [Answer(read, 200, TRUE) EXCEPT
               !.available = (available_capacity >= r.body.party_size)]
     ELSE IF available_capacity < r.body.party_size THEN Answer(read, 409, FALSE)
     ELSE [read EXCEPT !.pc = "checked"]

\* What insert(...).execute() can do: return the new row, raise, or
\* return no row.
InsertResults == {"row", "raises", "no data"}

\* An insert that tests the capacity again, against the table as it is
\* now, and refuses a party that no longer fits.
insert_reservation_if_it_fits(r, table, result) ==
  LET fits == r.capacity - SumPartySize(ReservationsAt(table, r.body))
                >= r.body.party_size
  IN [table |-> IF result = "row" /\ fits
                  THEN Append(table, ReservationRow(table, r.body)) ELSE table,
      request |-> IF ~fits THEN Answer(r, 409, FALSE)
                  ELSE IF result = "row"
                    THEN [Answer(r, 201, TRUE) EXCEPT !.inserted = 1,
                                                      !.row = Len(table) + 1]
                  ELSE Failed(r, IF result = "raises" THEN "insert raised"
                                 ELSE "insert returned no row")]

\* create_reservation from the insert on: the table and the answer.
insert_reservation(r, table, result) ==
  [table |-> IF result = "row"
               THEN Append(table, ReservationRow(table, r.body)) ELSE table,
   request |-> IF result = "row"
                 THEN [Answer(r, 201, TRUE) EXCEPT !.inserted = 1,
                                                   !.row = Len(table) + 1]
               ELSE Failed(r, IF result = "raises" THEN "insert raised"
                              ELSE "insert returned no row")]

(* ------------------------------ the agent ------------------------------ *)
Bella == <<"B","e","l","l","a">>
bella == <<"b","e","l","l","a">>
Osteria == <<"O","s","t","e","r","i","a">>
Zed == <<"Z","e","d">>

\* The restaurants table the agent works on: the two restaurants of the
\* reservation endpoints under their names (capacity 10 and capacity NULL).
AgentRestaurants ==
  << [name |-> Bella] @@ ReservationRestaurants[1],
     [name |-> Osteria] @@ ReservationRestaurants[2] >>

\* The fields of RestaurantAI that _call_api reads; api_available is
\* None (falsy) or a boolean.
Agents ==
  [use_api_first : BOOLEAN, api_available : BOOLEAN, db_initialized : BOOLEAN,
   last_search_results : {<<>>}]

\* Python's None where a dict is expected.
NoneResult == [is_none |-> TRUE]

\* `result and result.get('success')`
Succeeded(result) == "success" \in DOMAIN result /\ result.success

\* dict.get(k, default)
Get(d, k, default) == IF k \in DOMAIN d THEN d[k] ELSE default

\* The date strings the agent is given: today, yesterday, today's day and
\* month one year ago, the empty string, and a text that is no date.
DateStrings == {"D+0", "D-1", "D-365", "", "tomorrow"}

\* Today is the DayOfYear-th day of a year of 365 days.
DayOfYear == 200

\* strptime(date_str, "%Y-%m-%d") succeeds.
IsDate(date_str) == date_str \in {"D+0", "D-1", "D-365"}

\* datetime.strptime(date_str, "%Y-%m-%d").date()
strptime(date_str) ==
  CASE date_str = "D+0" -> Today
    [] date_str = "D-1" -> Today - 1
    [] date_str = "D-365" -> Today - 365

\* date.isoformat()
isoformat(d) ==
  CASE d = Today -> "D+0"
    [] d = Today - 1 -> "D-1"
    [] d = Today - 365 -> "D-365"

\* date.year, counted from the year of today.
YearOf(d) == (d + DayOfYear - 1) \div 365

\* A date in an earlier year is moved to the current year, a text that is
\* no date becomes today, every other date is returned as it came.
_validate_and_fix_date(date_str) ==
  IF ~IsDate(date_str) THEN isoformat(Today)
  ELSE LET parsed_date == strptime(date_str)
       IN IF parsed_date < Today /\ YearOf(parsed_date) < YearOf(Today)
          THEN isoformat(parsed_date + 365 * (YearOf(Today) - YearOf(parsed_date)))
          ELSE date_str

\* A JSON value of the party_size parameter: a number or a string.
Number(n) == [number |-> n]
Text(s) == [text |-> s]

\* int(value): a number is itself, the text of a number is that number,
\* any other text raises ValueError (NULL here).
int(value) ==
  IF "number" \in DOMAIN value THEN value.number
  ELSE CASE value.text = "4" -> 4 [] value.text = "6" -> 6 [] OTHER -> NULL

\* What pydantic makes of a JSON body: the date string is parsed, and a
\* date that does not parse is a field in error like a missing one.
ParsedBody(params) ==
  IF "date" \notin DOMAIN params THEN params
  ELSE IF IsDate(params.date) THEN [params EXCEPT !.date = strptime(params.date)]
  ELSE WithoutKey(params, "date")

\* How the API behaves for one request: it answers with its store working,
\* it answers while its store raises, or the request itself raises.
ApiBehaviours == {"answers", "store raises", "raises"}

\* GET /api/restaurants: the query-string filters, ORDER BY rating DESC.
get_restaurants(query_args, restaurants, store_raises) ==
  IF store_raises
  THEN [status |-> 500, json |-> [success |-> FALSE, error |-> "Failed to retrieve restaurants"]]
  ELSE LET data == OrderByRatingDesc(
                     SelectSeq(restaurants, LAMBDA r :
                        /\ "cuisine" \in DOMAIN query_args => ILike(r.cuisine, query_args.cuisine)
                        /\ "city" \in DOMAIN query_args => ILike(r.city, query_args.city)
                        /\ "price_range" \in DOMAIN query_args
                              => r.price_range = query_args.price_range
                        /\ "min_rating" \in DOMAIN query_args
                              => r.rating >= query_args.min_rating))
       IN [status |-> 200, json |-> [success |-> TRUE, data |-> data, count |-> Len(data)]]

\* The JSON of check_availability: availability and seats left, or the
\* error.
AvailabilityJson(r) ==
  IF r.status = 200
    THEN [success |-> TRUE, available |-> r.available,
          available_seats |-> r.capacity - r.total_reserved]
  ELSE [success |-> FALSE, error |-> "availability"]

\* POST /api/availability, whole.
check_availability(request_data, restaurants, table, store_raises) ==
  LET answered(r) == [status |-> r.status, json |-> AvailabilityJson(r)]
      looked_up(found) ==
        answered(IF found.pc = "found" THEN read_reservations(found, table, FALSE)
                 ELSE found)
  IN looked_up(find_restaurant("availability", ParsedBody(request_data), restaurants,
                               store_raises))

\* The JSON of create_reservation: on 201 the row inserted, with the name
\* of the restaurant the handler selected put into it; otherwise the
\* error.
ReservationJson(done, restaurants) ==
  IF done.request.status = 201
    THEN [success |-> TRUE,
          data |-> [restaurant_name |->
                      RestaurantById(restaurants,
                                     done.request.body.restaurant_id)[1].name]
                     @@ done.table[done.request.row]]
  ELSE [success |-> FALSE, error |-> "reservation"]

\* POST /api/reservations, whole: the answer and the table it leaves.
create_reservation(request_data, restaurants, table, store_raises) ==
  LET answered(done) ==
        [status |-> done.request.status,
         table |-> done.table,
         json |-> ReservationJson(done, restaurants)]
      tested(read) ==
        answered(IF read.pc = "checked" THEN insert_reservation(read, table, "row")
                 ELSE [table |-> table, request |-> read])
      looked_up(found) ==
        tested(IF found.pc = "found" THEN read_reservations(found, table, FALSE)
               ELSE found)
  IN looked_up(find_restaurant("reservations", ParsedBody(request_data), restaurants,
                               store_raises))

\* POST /api/recommendations/smart: the preferences the engine reads, the
\* default minimum rating 4.0, limit 10.
get_smart_recommendations(preferences, restaurants, store_raises) ==
  LET session_prefs ==
        [k \in (DOMAIN preferences \cap {"cuisine", "city", "price_range", "min_rating"})
                 \cup {"min_rating"} |->
           IF k \in DOMAIN preferences THEN preferences[k] ELSE 40]
      answered(result) ==
        [status |-> 200,
         json |-> [success |-> TRUE, data |-> result.recommendations,
                   meta |-> [message |-> result.message,
                             fallback_used |-> result.fallback_used]]]
  IN answered(get_recommendations(restaurants, session_prefs, 10,
                                  [primary |-> store_raises, relaxed |-> store_raises,
                                   unfiltered |-> store_raises], 0))

\* The endpoints _call_api is asked for; the API routes none to "menus".
Endpoints == {"restaurants", "reservations", "availability", "recommendations/smart",
              "menus"}

\* The paths app.py routes, each for one method only: /api/restaurants for
\* GET, the three others for POST.
RoutedEndpoints == {"restaurants", "availability", "reservations", "recommendations/smart"}

\* What the API answers to one request, and the reservations table after:
\* the view of a routed path and method, 405 Method Not Allowed for a
\* routed path asked with the other method (no handler is registered for
\* it), and the 404 handler's answer for any other path.
ApiAnswer(endpoint, params, method, restaurants, table, store_raises) ==
  IF endpoint = "restaurants" /\ method = "GET"
    THEN [table |-> table] @@ get_restaurants(params, restaurants, store_raises)
  ELSE IF endpoint = "availability" /\ method = "POST"
    THEN [table |-> table] @@ check_availability(params, restaurants, table, store_raises)
  ELSE IF endpoint = "reservations" /\ method = "POST"
    THEN create_reservation(params, restaurants, table, store_raises)
  ELSE IF endpoint = "recommendations/smart" /\ method = "POST"
    THEN [table |-> table] @@ get_smart_recommendations(params, restaurants, store_raises)
  ELSE IF endpoint \in RoutedEndpoints
    THEN [table |-> table, status |-> 405, json |-> [success |-> FALSE]]
  ELSE [table |-> table, status |-> 404,
        json |-> [success |-> FALSE, error |-> "Endpoint not found"]]

\* The result of a failed Supabase call.
SupabaseError(error) == [success |-> FALSE, error |-> error, source |-> "supabase"]

\* select('*') with the truthy filters, ORDER BY rating DESC.
_supabase_search_restaurants(params, restaurants, db) ==
  IF db = "raises" THEN SupabaseError("raised")
  ELSE [success |-> TRUE,
        data |-> IF db = "no data" THEN <<>>
                 ELSE OrderByRatingDesc(_apply_filters(restaurants, params)),
        source |-> "supabase"]

\* The row _supabase_create_reservation inserts: the columns
\* restaurant_id, user_name, user_email, party_size, date, time that params
\* holds (a None is a NULL, left out), special_requests, and the new id.
SupabaseReservationRow(table, params) ==
  [k \in {"id", "special_requests"}
         \cup (DOMAIN params \cap {"restaurant_id", "user_name", "user_email",
                                   "party_size", "date", "time"}) |->
     IF k = "id" THEN Len(table) + 1
     ELSE IF k \in DOMAIN params THEN params[k] ELSE ""]

\* The insert of the fallback: no restaurant lookup, no capacity test.
_supabase_create_reservation(params, restaurants, table, db) ==
  [table |-> IF db = "row" THEN Append(table, SupabaseReservationRow(table, params))
             ELSE table,
   result |-> IF db = "row"
                THEN [success |-> TRUE, reservation_id |-> Len(table) + 1,
                      source |-> "supabase"]
              ELSE IF db = "no data" THEN SupabaseError("Failed to create reservation")
              ELSE SupabaseError("raised")]

\* The restaurant whose name is restaurant_name ignoring case (ilike
\* without wildcards, limit 1), the party sizes reserved for it at the date
\* and time, and the seats left; a NULL capacity makes the subtraction
\* raise.
_supabase_check_availability(params, restaurants, table, db) ==
  LET restaurant_name == Get(params, "restaurant_name", <<>>)
      restaurant_result ==
        IF db = "no data" THEN <<>>
        ELSE Limit(SelectSeq(restaurants,
                             LAMBDA r : Lower(r.name) = Lower(restaurant_name)), 1)
      restaurant == restaurant_result[1]
      current_bookings ==
        SumPartySize(SelectSeq(table, LAMBDA r :
           /\ ColumnIs(r, "restaurant_id", IdText(restaurant.id))
           /\ ColumnIs(r, "date", Get(params, "date", ""))
           /\ ColumnIs(r, "time", Get(params, "time", ""))))
      available_seats == restaurant.capacity - current_bookings
  IN IF db = "raises" THEN SupabaseError("raised")
     ELSE IF restaurant_result = <<>> THEN SupabaseError("Restaurant not found")
     ELSE IF restaurant.capacity = NULL THEN SupabaseError("raised")
     ELSE [success |-> TRUE, available |-> available_seats > 0,
           available_seats |-> Max(0, available_seats),
           restaurant_name |-> restaurant.name, source |-> "supabase"]

\* budget_map.get(params['budget'])
budget_map(budget) ==
  CASE budget \in {"budget", "moderate"} -> "$"
    [] budget \in {"upscale", "luxury"} -> "$$"
    [] OTHER -> ""

\* The five best rated restaurants that pass the truthy filters.
_supabase_get_recommendations(params, restaurants, db) ==
  LET filtered == SelectSeq(_apply_filters(restaurants, WithoutKey(params, "budget")),
                            LAMBDA r : Has(params, "budget") /\ budget_map(params.budget) # ""
                                          => r.price_range = budget_map(params.budget))
  IN IF db = "raises" THEN SupabaseError("raised")
     ELSE [success |-> TRUE,
           data |-> IF db = "no data" THEN <<>> ELSE Limit(OrderByRatingDesc(filtered), 5),
           meta |-> [message |-> "Here are my top recommendations based on your preferences",
                     source |-> "supabase"],
           source |-> "supabase"]

\* The Supabase operation of the endpoint: its result, the reservations
\* table after it, and whether the store was consulted.  None when the
\* database is not initialized or the endpoint is unknown.
_supabase_fallback(self, endpoint, params, restaurants, table, db) ==
  IF ~self.db_initialized
    THEN [table |-> table, result |-> NoneResult, consulted |-> FALSE]
  ELSE IF endpoint = "restaurants"
    THEN [table |-> table, consulted |-> TRUE,
          result |-> _supabase_search_restaurants(params, restaurants, db)]
  ELSE IF endpoint = "reservations"
    THEN [consulted |-> TRUE]
           @@ _supabase_create_reservation(params, restaurants, table, db)
  ELSE IF endpoint = "availability"
    THEN [table |-> table, consulted |-> TRUE,
          result |-> _supabase_check_availability(params, restaurants, table, db)]
  ELSE IF endpoint = "recommendations/smart"
    THEN [table |-> table, consulted |-> TRUE,
          result |-> _supabase_get_recommendations(params, restaurants, db)]
  ELSE [table |-> table, result |-> NoneResult, consulted |-> FALSE]

\* The request sent to the API, as the log keeps it.
ApiCall(endpoint) == [via |-> "api", endpoint |-> endpoint]

\* The Supabase operation run, as the log keeps it.
SupabaseCall(endpoint) == [via |-> "supabase", endpoint |-> endpoint]

\* No response: the API was not asked, or the request raised.
NoResponse == [status |-> 0, json |-> NoneResult]

\* A _call_api about to start: what it was asked (endpoint, params,
\* method), how the API and the store behave during it (api, db), the
\* request as the handler holds it, the API's response, the result, the
\* requests sent and the Supabase operations run (calls), the reservations
\* table its last store call found, and the rows it inserted.
NewCall(endpoint, params, method, api, db) ==
  [pc |-> "request", endpoint |-> endpoint, params |-> params, method |-> method,
   api |-> api, db |-> db, request |-> NoRequest, response |-> NoResponse,
   result |-> NoneResult, calls |-> <<>>, found |-> <<>>, written |-> <<>>]

\* A _call_api that returns whatever the API answered, whatever its status.
Responded_any_status(call, status, json) ==
  [call EXCEPT !.response = [status |-> status, json |-> json],
               !.pc = "returned", !.result = json]

\* `if response.status_code in [200, 201]: return response.json()`; any
\* other status goes on to the fallback.
Responded(call, status, json) ==
  IF status \in {200, 201}
    THEN [call EXCEPT !.response = [status |-> status, json |-> json],
                      !.pc = "returned", !.result = json]
  ELSE [call EXCEPT !.response = [status |-> status, json |-> json],
                    !.pc = "fallback"]

\* _call_api up to the handler's query on the reservations table.  The
\* API is asked when it is preferred and marked available.  The handlers
\* of availability and reservations stop at that query when they found the
\* restaurant; every other request is answered without it.
SendRequest(self, call, restaurants, table) ==
  LET sent == [call EXCEPT !.calls = <<ApiCall(call.endpoint)>>]
      store_raises == call.api = "store raises"
      answered(answer) == Responded(sent, answer.status, answer.json)
  IN IF ~(self.use_api_first /\ self.api_available) THEN [call EXCEPT !.pc = "fallback"]
     ELSE IF call.api = "raises" THEN [sent EXCEPT !.pc = "fallback"]
     ELSE IF /\ call.method = "POST"
             /\ call.endpoint \in {"availability", "reservations"}
             /\ find_restaurant(call.endpoint, ParsedBody(call.params), restaurants,
                                store_raises).pc = "found"
       THEN [sent EXCEPT !.pc = "read",
                         !.request = find_restaurant(call.endpoint,
                                                     ParsedBody(call.params),
                                                     restaurants, store_raises)]
     ELSE answered(ApiAnswer(call.endpoint, call.params, call.method, restaurants,
                             table, store_raises))

\* The handler from its query on the reservations table to the capacity
\* test: check_availability answers, create_reservation answers 409 or
\* goes on to its insert.
HandlerRead(call, table, restaurants) ==
  LET saw(read) == [call EXCEPT !.request = read, !.found = table]
      tested(read) ==
        IF read.pc = "checked" THEN [saw(read) EXCEPT !.pc = "insert"]
        ELSE Responded(saw(read), read.status,
                       IF call.endpoint = "availability" THEN AvailabilityJson(read)
                       ELSE ReservationJson([table |-> table, request |-> read],
                                            restaurants))
  IN tested(read_reservations(call.request, table, FALSE))

\* create_reservation from its insert on, into the table as it is now.
HandlerInsert(call, table, restaurants) ==
  LET inserted(done) ==
        [table |-> done.table,
         call |-> Responded([call EXCEPT !.request = done.request, !.found = table,
                                         !.written = SubSeq(done.table, Len(table) + 1,
                                                            Len(done.table))],
                            done.request.status, ReservationJson(done, restaurants))]
  IN inserted(insert_reservation(call.request, table, "row"))

\* `return self._supabase_fallback(endpoint, params, method)` on the table
\* as it is now.
SupabaseFallback(self, call, restaurants, table) ==
  LET fell_back(fallback) ==
        [table |-> fallback.table,
         call |-> [call EXCEPT
                     !.pc = "returned", !.result = fallback.result, !.found = table,
                     !.calls = IF fallback.consulted
                                 THEN Append(@, SupabaseCall(call.endpoint)) ELSE @,
                     !.written = SubSeq(fallback.table, Len(table) + 1,
                                        Len(fallback.table))]]
  IN fell_back(_supabase_fallback(self, call.endpoint, call.params, restaurants, table,
                                  call.db))

\* _call_api with nothing else at work on the store: the API is asked
\* when it is preferred and marked available; its JSON is the result when
\* it answers 200 or 201, and in every other case the result is that of
\* the Supabase fallback.  calls logs the requests sent and the Supabase
\* operations run.
_call_api(self, endpoint, params, method, api, db, restaurants, table) ==
  LET returned(done) ==
        [result |-> done.call.result, table |-> done.table, calls |-> done.call.calls]
      fell_back(step) ==
        returned(IF step.call.pc = "fallback"
                   THEN SupabaseFallback(self, step.call, restaurants, step.table)
                 ELSE step)
      inserted(call) ==
        fell_back(IF call.pc = "insert" THEN HandlerInsert(call, table, restaurants)
                  ELSE [table |-> table, call |-> call])
      read(call) ==
        inserted(IF call.pc = "read" THEN HandlerRead(call, table, restaurants)
                 ELSE call)
  IN read(SendRequest(self, NewCall(endpoint, params, method, api, db), restaurants,
                      table))

\* The falsy values of a tool parameter: the empty text, the number 0.
FalsyParameter(k) ==
  IF k \in {"cuisine", "city", "location", "restaurant_name", "customer_email"}
    THEN {<<>>, None}
  ELSE IF k = "min_rating" THEN {0}
  ELSE IF k = "party_size" THEN {Number(0), Text("")}
  ELSE {""}

\* `if parameters.get(k):`
Truthy(parameters, k) == k \in DOMAIN parameters /\ parameters[k] \notin FalsyParameter(k)

NoRestaurantsFound ==
  [text |-> "No restaurants found matching your criteria. Try different search terms."]

\* What a tool does next: the _call_api it makes.
Calls(endpoint, params, method) ==
  [endpoint |-> endpoint, params |-> params, method |-> method]

\* The search tool, given what its _call_api's returned so far: the
\* truthy parameters (location as city) go to the restaurants endpoint;
\* the first five restaurants of a successful result are remembered and
\* reported.
_process_tool_search_restaurants(self, parameters, returned) ==
  LET search_params ==
        [k \in { k \in {"cuisine", "city", "price_range", "min_rating"} :
                   Truthy(parameters, IF k = "city" THEN "location" ELSE k) } |->
           parameters[IF k = "city" THEN "location" ELSE k]]
      reported(result, found) ==
        [self |-> IF found # <<>> THEN [self EXCEPT !.last_search_results = found]
                   ELSE self,
         message |-> IF found # <<>>
                       THEN [text |-> "Found restaurants", count |-> Len(found),
                             source |-> Get(result, "source", "api")]
                     ELSE NoRestaurantsFound]
      searched(result) ==
        reported(result, IF Succeeded(result) THEN Limit(result.data, 5) ELSE <<>>)
  IN IF returned = <<>> THEN Calls("restaurants", search_params, "GET")
     ELSE searched(returned[1])

\* The availability tool: the date is fixed, the parameters are posted as
\* they are.
_process_tool_check_availability(self, parameters, returned) ==
  LET fixed == IF Truthy(parameters, "date")
                 THEN [parameters EXCEPT !.date = _validate_and_fix_date(parameters.date)]
               ELSE parameters
      checked(result) ==
        [self |-> self,
         message |-> IF Succeeded(result)
                       THEN [text |-> IF Get(result, "available", FALSE)
                                        THEN "is available" ELSE "is not available",
                             available_seats |-> Get(result, "available_seats", 0),
                             source |-> Get(result, "source", "api")]
                     ELSE [text |-> "Unable to check availability. Please try again or contact the restaurant directly."]]
  IN IF returned = <<>> THEN Calls("availability", fixed, "POST")
     ELSE checked(returned[1])

required_fields ==
  <<"customer_name", "customer_email", "party_size", "reservation_date",
    "reservation_time">>

\* A reservation tool that submits whatever fields it was given.
_process_tool_create_reservation_fields_unchecked(self, parameters, returned) ==
  LET restaurant_name == Get(parameters, "restaurant_name", <<>>)
      answer(message) == [self |-> self, message |-> message]
      reserved(lookup) ==
        LET data == Get(lookup, "data", <<>>)
            matching == SelectSeq(data, LAMBDA r : Lower(r.name) = Lower(restaurant_name))
            reservation_data ==
              [restaurant_id |-> IdText(matching[1].id),
               user_name |-> Get(parameters, "customer_name", ""),
               user_email |-> Get(parameters, "customer_email", <<>>),
               party_size |-> int(Get(parameters, "party_size", Number(0))),
               date |-> Get(parameters, "reservation_date", ""),
               time |-> Get(parameters, "reservation_time", ""),
               special_requests |-> Get(parameters, "special_requests", "")]
            submitted(result) ==
              answer(IF Succeeded(result)
                       THEN [text |-> "Reservation confirmed",
                             source |-> Get(result, "source", "api")]
                     ELSE [text |-> "Reservation failed",
                           error |-> Get(result, "error", "Service unavailable")])
        IN IF data = <<>>
             THEN answer([text |-> "Could not access restaurant database. Please try again."])
           ELSE IF restaurant_name = None THEN answer(Raised)
           ELSE IF matching = <<>> THEN answer([text |-> "Restaurant not found"])
           ELSE IF Len(returned) = 1 THEN Calls("reservations", reservation_data, "POST")
           ELSE submitted(returned[2])
  IN IF returned = <<>> THEN Calls("restaurants", <<>>, "GET")
     ELSE reserved(returned[1])

\* The reservation tool: the date is fixed, the restaurants are fetched, the
\* one named (ignoring case) is picked, the required fields are tested, and
\* only then is the reservation posted.  A restaurant_name of None raises
\* at .lower(); a party size that is no number is caught by the inner try.
_process_tool_create_reservation(self, parameters, returned) ==
  LET restaurant_name == Get(parameters, "restaurant_name", <<>>)
      fixed == IF Truthy(parameters, "reservation_date")
                 THEN [parameters EXCEPT
                         !.reservation_date = _validate_and_fix_date(parameters.reservation_date)]
               ELSE parameters
      missing == SelectSeq(required_fields, LAMBDA field : ~Truthy(fixed, field))
      answer(message) == [self |-> self, message |-> message]
      reserved(lookup) ==
        LET data == Get(lookup, "data", <<>>)
            matching == SelectSeq(data, LAMBDA r : Lower(r.name) = Lower(restaurant_name))
            reservation_data ==
              [restaurant_id |-> IdText(matching[1].id),
               user_name |-> fixed.customer_name,
               user_email |-> fixed.customer_email,
               party_size |-> int(fixed.party_size),
               date |-> fixed.reservation_date,
               time |-> fixed.reservation_time,
               special_requests |-> Get(fixed, "special_requests", "")]
            submitted(result) ==
              answer(IF Succeeded(result)
                       THEN [text |-> "Reservation confirmed",
                             source |-> Get(result, "source", "api")]
                     ELSE [text |-> "Reservation failed",
                           error |-> Get(result, "error", "Service unavailable")])
        IN IF data = <<>>
             THEN answer([text |-> "Could not access restaurant database. Please try again."])
           ELSE IF restaurant_name = None THEN answer(Raised)
           ELSE IF matching = <<>> THEN answer([text |-> "Restaurant not found"])
           ELSE IF missing # <<>>
             THEN answer([text |-> "Missing required field", field |-> missing[1]])
           ELSE IF int(fixed.party_size) = NULL
             THEN answer([text |-> "Error creating reservation"])
           ELSE IF Len(returned) = 1 THEN Calls("reservations", reservation_data, "POST")
           ELSE submitted(returned[2])
  IN IF returned = <<>> THEN Calls("restaurants", <<>>, "GET")
     ELSE reserved(returned[1])

\* The recommendations tool: the parameters are posted to
\* recommendations/smart and the first five restaurants reported.
_process_tool_get_recommendations(self, parameters, returned) ==
  LET reported(result, recommendations) ==
        [self |-> self,
         message |-> IF recommendations # <<>>
                       THEN [text |-> "Recommendations", count |-> Len(recommendations),
                             source |-> Get(result, "source", "api")]
                     ELSE [text |-> "I couldn't generate recommendations right now. Please try browsing our restaurant collection."]]
      recommended(result) ==
        reported(result, IF Succeeded(result) THEN Limit(result.data, 5) ELSE <<>>)
  IN IF returned = <<>> THEN Calls("recommendations/smart", parameters, "POST")
     ELSE recommended(returned[1])

ToolNames == {"search_restaurants", "check_availability", "create_reservation",
              "get_recommendations"}

\* The tool named, whatever it does.
Dispatch(self, tool_name, parameters, returned) ==
  CASE tool_name = "search_restaurants" ->
         _process_tool_search_restaurants(self, parameters, returned)
    [] tool_name = "check_availability" ->
         _process_tool_check_availability(self, parameters, returned)
    [] tool_name = "create_reservation" ->
         _process_tool_create_reservation(self, parameters, returned)
    [] tool_name = "get_recommendations" ->
         _process_tool_get_recommendations(self, parameters, returned)

\* A _process_tool without its try: what the tool raises, it raises.
_process_tool_unguarded(self, tool_name, parameters, returned) ==
  IF tool_name \notin ToolNames
    THEN [self |-> self, message |-> [text |-> "Unknown tool", tool_name |-> tool_name]]
  ELSE Dispatch(self, tool_name, parameters, returned)

\* _process_tool, given what the _call_api's of its tool returned so far:
\* the next _call_api, or the agent and the message it ends with.  One of
\* the four tools is run; any other name is answered "Unknown tool: name"
\* with no call made; whatever a tool raises becomes "Error executing
\* name. Please try again."
_process_tool(self, tool_name, parameters, returned) ==
  IF tool_name \notin ToolNames
    THEN [self |-> self, message |-> [text |-> "Unknown tool", tool_name |-> tool_name]]
  ELSE LET guarded(next) ==
             IF "message" \in DOMAIN next /\ next.message = Raised
               THEN [next EXCEPT !.message = [text |-> "Error executing",
                                              tool_name |-> tool_name]]
             ELSE next
       IN guarded(Dispatch(self, tool_name, parameters, returned))

\* _process_tool from its start to its message with nothing else at work
\* on the store: api and db are the behaviour of the API and of the store
\* during the tool's first _call_api, api2 and db2 during its second.
RunTool(self, tool_name, parameters, api, db, api2, db2, restaurants, table) ==
  LET next(returned) == _process_tool(self, tool_name, parameters, returned)
      ended(last, after, calls) ==
        [table |-> after, calls |-> calls, self |-> last.self,
         message |-> last.message]
      submitted(lookup, submit) ==
        ended(next(<<lookup.result, submit.result>>), submit.table,
              lookup.calls \o submit.calls)
      went_on(lookup, second) ==
        IF "message" \in DOMAIN second THEN ended(second, lookup.table, lookup.calls)
        ELSE submitted(lookup, _call_api(self, second.endpoint, second.params,
                                         second.method, api2, db2, restaurants,
                                         lookup.table))
      called(lookup) == went_on(lookup, next(<<lookup.result>>))
      started(first) ==
        IF "message" \in DOMAIN first THEN ended(first, table, <<>>)
        ELSE called(_call_api(self, first.endpoint, first.params, first.method, api,
                              db, restaurants, table))
  IN started(next(<<>>))

(* ------------------------------- chat ---------------------------------- *)
\* self.system_prompt
system_prompt ==
  [role |-> "system",
   content |-> [text |-> "You are FoodieSpot AI, a restaurant reservation assistant."]]

RECURSIVE lstrip(_)
lstrip(s) == IF s # <<>> /\ Head(s) = " " THEN lstrip(Tail(s)) ELSE s

Reversed(s) == [i \in 1..Len(s) |-> s[Len(s) + 1 - i]]

\* str.strip()
strip(s) == Reversed(lstrip(Reversed(lstrip(s))))

\* What the user types: a message, the same between blanks, a blank.
UserInputs == { <<"h", "i">>, <<" ", "h", "i", " ">>, <<" ">> }

\* The agent that chats: the API is marked unavailable, the database is
\* initialized.
ChatAgent ==
  [use_api_first |-> TRUE, api_available |-> FALSE, db_initialized |-> TRUE,
   last_search_results |-> <<>>]

\* tool_call.function.arguments: the text of a JSON object, or a text
\* json.loads rejects.
Json(parameters) == [json |-> parameters]
NotJson == [not_json |-> TRUE]

\* The tool calls of one assistant message, before they get their ids.
ToolCallLists ==
  { << [name |-> "search_restaurants", arguments |-> Json(<<>>)] >>,
    << [name |-> "search_restaurants", arguments |-> NotJson] >>,
    << [name |-> "search_restaurants", arguments |-> Json([cuisine |-> french])],
       [name |-> "order_pizza", arguments |-> Json(<<>>)] >> }

\* The id the model gives the k-th tool call of the n-th chat call.
ToolCallId(n, k) == 10 * n + k

\* What a completion request does: the model answers in words, answers
\* with tool calls, or the request raises.
Completions == {"content", "tool_calls", "raises"}

\* user_message (811)
UserMessage(user_input) == [role |-> "user", content |-> [input |-> strip(user_input)]]

\* len(self.context) > 15 (815)
TooLong(messages) == Len(messages) > 15

\* [self.system_prompt] + self.context[-14:] (816); a list of 14 messages
\* or fewer is its own [-14:].
Slice(messages) ==
  <<system_prompt>> \o
    SubSeq(messages, IF Len(messages) > 14 THEN Len(messages) - 13 ELSE 1, Len(messages))

\* assistant_message (829-833) of the n-th chat call
AssistantMessage(n, first, tool_calls) ==
  [role |-> "assistant", content |-> [text |-> "reply"],
   tool_calls |-> IF first = "tool_calls"
                    THEN [k \in 1..Len(tool_calls) |-> ToolCallId(n, k)]
                  ELSE <<>>]

\* The message of the outer except clause (884-888).
ErrorMessage ==
  [role |-> "assistant",
   content |-> [text |-> "I'm having trouble processing your request right now. Please try again in a moment."]]

\* The body of the for loop up to its append (840-841, 850-853): the
\* arguments are parsed and the tool is run, or the text of the
\* JSONDecodeError clause is the result.
ToolResult(self, tool_call, restaurants, table) ==
  IF "json" \in DOMAIN tool_call.arguments
    THEN RunTool(self, tool_call.name, tool_call.arguments.json,
                 "raises", "row", "raises", "row", restaurants, table)
  ELSE [self |-> self, table |-> table,
        message |-> [text |-> "Error parsing tool parameters"]]

\* tool_message (843-847, 853-857)
ToolMessage(content, n, k) ==
  [role |-> "tool", content |-> content, tool_call_id |-> ToolCallId(n, k)]

\* The last assistant message (871-874).
FinalMessage == [role |-> "assistant", content |-> [text |-> "final reply"]]

\* No reset_conversation is under way.
NoReset == [pc |-> "idle"]

\* A thread that is not in chat; a thread in chat holds the number of its
\* call, msg.tool_calls and the index of the loop, the result of the tool
\* that just ran, and the list built by line 816 before it is assigned.
NoCall ==
  [pc |-> "idle", n |-> 0, tool_calls |-> <<>>, k |-> 0, result |-> NoneResult,
   sliced |-> <<>>]

(* -------------------------- Streamlit client --------------------------- *)
\* str(data): "None", or the items of the dict in the order they were
\* put in.  A dict is the sequence of its <<key, value>> items.
str(data) ==
  IF data = None THEN <<"None">>
  ELSE <<"{">> \o [i \in 1..(2 * Len(data)) |-> data[(i + 1) \div 2][2 - (i % 2)]] \o <<"}">>

\* cache_key = f"{method}_{endpoint}_{str(data)}"
cache_key(method, endpoint, data) == <<method, "_", endpoint, "_">> \o str(data)

\* reservation_data of the booking page, for a party of party_size.
reservation_data(party_size) ==
  << <<"restaurant_id", "2">>, <<"user_name", "Ann">>, <<"user_email", "a@b.c">>,
     <<"party_size", party_size>>, <<"reservation_date", "D+0">>,
     <<"reservation_time", "19:00">>, <<"special_requests", "">> >>

\* The requests the pages make, and one with a method that is neither GET
\* nor POST.
ClientRequests ==
  { [method |-> "GET", endpoint |-> "restaurants", data |-> None],
    [method |-> "GET", endpoint |-> "recommendations", data |-> None],
    [method |-> "POST", endpoint |-> "reservations", data |-> reservation_data("4")],
    [method |-> "POST", endpoint |-> "reservations", data |-> reservation_data("6")],
    [method |-> "DELETE", endpoint |-> "reservations", data |-> None] }

\* requests.get / requests.post raised.
ConnectionError == [raises |-> TRUE]

\* What the server can answer: 200 or 201 with one of two JSON bodies, an
\* error status; or the request raises.
Responses ==
  { [status |-> 200, json |-> [success |-> TRUE, count |-> 1]],
    [status |-> 200, json |-> [success |-> TRUE, count |-> 2]],
    [status |-> 201, json |-> [success |-> TRUE, count |-> 1]],
    [status |-> 409, json |-> [success |-> FALSE, count |-> 0]],
    [status |-> 500, json |-> [success |-> FALSE, count |-> 0]],
    ConnectionError }

\* make_api_request up to its first wait (670-680): the key is built and
\* compared with st.session_state.get('last_api_call'); an equal key
\* returns last_api_result, a method that is neither GET nor POST leaves
\* response unbound, which the last except clause turns into None, and
\* any other request is sent.
make_api_request(state, endpoint, method, data) ==
  LET key == cache_key(method, endpoint, data)
      run(pc, result, sent) ==
        [pc |-> pc, cache_key |-> key, result |-> result, sent |-> sent]
  IN IF key = state.last_api_call THEN run("returned", state.last_api_result, FALSE)
     ELSE IF method \notin {"GET", "POST"} THEN run("returned", NoneResult, FALSE)
     ELSE run("sent", NoneResult, TRUE)

\* The answer to the request (682-696): 200 and 201 give result =
\* response.json(), every other status and a raised exception return None.
Received(run, response) ==
  IF "status" \in DOMAIN response /\ response.status \in {200, 201}
    THEN [run EXCEPT !.pc = "answered", !.result = response.json]
  ELSE [run EXCEPT !.pc = "returned"]

\* st.session_state['last_api_call'] = cache_key (684)
KeyWritten(state, run) == [state EXCEPT !.last_api_call = run.cache_key]

\* st.session_state['last_api_result'] = result (685)
ResultWritten(state, run) == [state EXCEPT !.last_api_result = run.result]

(* ------------------------------ actions -------------------------------- *)
NoArgs == [none |-> TRUE]

\* The agent of the states in which no agent takes part.
NoAgent ==
  [use_api_first |-> FALSE, api_available |-> FALSE, db_initialized |-> FALSE,
   last_search_results |-> <<>>]

\* st.session_state before any request: last_api_call None, no
\* last_api_result.
NoSession == [last_api_call |-> <<>>, last_api_result |-> NoneResult]

\* No agent, no conversation and no Streamlit session take part.
NoAgentState ==
  /\ agent = NoAgent
  /\ context = <<>>
  /\ history = <<>>
  /\ session = NoSession

\* The table holds some rows and no request is in progress.
\* The reservations table a recommendation request runs beside: one
\* reservation has been made.
BookedTables == {<<ReservationRow(<<>>, Body("2", 4, "19:00"))>>}

Init ==
  /\ store \in Stores
  /\ op = "idle"
  /\ args = NoArgs
  /\ out = NoArgs
  /\ reservations \in BookedTables
  /\ req = [c \in Clients |-> NoRequest]
  /\ NoAgentState

\* What became of the primary query of a request.
PrimaryOutcome(tried, fail) ==
  IF fail.primary THEN "select raised"
  ELSE IF tried = NoRestaurants THEN "no restaurants"
  ELSE IF tried = Raised THEN "scoring raised"
  ELSE "scored"

\* The request is inside _get_fallback_recommendations, before the select
\* of the strategy.
InFallback(strategy) ==
  op = "_get_fallback_recommendations" /\ out = [strategy |-> strategy]

\* A recommendation request up to its first answer from the store: the
\* primary select on the current table, scoring and the return, or the
\* call of the fallback.  op names where the request is, args its inputs
\* (preferences, limit, which store calls raise, the clock difference) and
\* what became of the primary query, out what it returned.
GetRecommendations ==
  /\ op = "idle"
  /\ \E preferences \in Preferences, limit \in 0..MaxLimit,
        fail \in Failures, elapsed \in 0..MaxElapsed :
       \E tried \in {RecommendTry(store, preferences, limit, fail, elapsed)} :
          /\ args' = [preferences |-> preferences, limit |-> limit, fail |-> fail,
                      elapsed |-> elapsed, primary |-> PrimaryOutcome(tried, fail)]
          /\ IF GoesToFallback(tried)
             THEN /\ op' = "_get_fallback_recommendations"
                  /\ out' = [strategy |-> 1]
                  /\ store' = store
             ELSE /\ op' = "get_recommendations"
                  /\ out' = tried
                  /\ store' = store
  /\ UNCHANGED <<reservations, req, agent, context, history, session>>

\* The relaxed select of the fallback, on the table as it is now, and what
\* follows it: the return, the except clause, or strategy 2.
FallbackStrategy1 ==
  /\ InFallback(1)
  /\ \E tried \in {Strategy1(store, args.preferences, args.limit, args.fail,
                             args.elapsed)} :
        IF tried = NothingFound
        THEN /\ op' = op
             /\ out' = [strategy |-> 2]
             /\ store' = store
        ELSE /\ op' = "get_recommendations"
             /\ out' = FallbackExcept(tried, args.elapsed)
             /\ store' = store
  /\ UNCHANGED <<args, reservations, req, agent, context, history, session>>

\* The unfiltered select of the fallback, on the table as it is now, and
\* the return or the except clause.
FallbackStrategy2 ==
  /\ InFallback(2)
  /\ op' = "get_recommendations"
  /\ out' = FallbackExcept(Strategy2(store, args.limit, args.fail, args.elapsed),
                           args.elapsed)
  /\ store' = store
  /\ UNCHANGED <<args, reservations, req, agent, context, history, session>>

\* Another client of the store writes the restaurants table while no
\* request is made or between two selects of a request.
BetweenSelects == op \in {"idle", "_get_fallback_recommendations"}

\* The chunks an insert can add to a table: restaurants the table does not
\* hold, in any order, as many as the table has room for.
Chunks(table) ==
  { chunk \in Stores :
      /\ chunk # <<>>
      /\ Len(table) + Len(chunk) <= MaxStore
      /\ \A i \in 1..Len(chunk), j \in 1..Len(table) : chunk[i].id # table[j].id }

\* table('restaurants').insert(chunk).execute() of the loader and of the
\* agent's sample data.
InsertRestaurants ==
  /\ BetweenSelects
  /\ \E chunk \in Chunks(store) : store' = store \o chunk
  /\ UNCHANGED <<op, args, out, reservations, req, agent, context, history, session>>

\* table('restaurants').delete().neq('id', ...).execute() of the loader:
\* every row goes.
DeleteRestaurants ==
  /\ BetweenSelects
  /\ store' = <<>>
  /\ UNCHANGED <<op, args, out, reservations, req, agent, context, history, session>>

\* The caller has consumed the result; the per-request values are dropped.
Respond ==
  /\ op \notin {"idle", "_get_fallback_recommendations", "_call_api under way",
                "_process_tool under way", "make_api_request under way"}
  /\ op' = "idle"
  /\ args' = NoArgs
  /\ out' = NoArgs
  /\ UNCHANGED <<store, reservations, req, agent, context, history, session>>

\* The availability ladder applied to one candidate list.
CheckAvailabilityAndApplyFallback ==
  /\ op = "idle"
  /\ \E restaurants \in CandidateLists :
       \E answers \in [1..Len(restaurants) -> AvailabilityAnswers] :
         /\ op' = "check_availability_and_apply_fallback"
         /\ args' = [restaurants |-> restaurants, answers |-> answers]
         /\ out' = check_availability_and_apply_fallback(restaurants, answers)
  /\ UNCHANGED <<store, reservations, req, agent, context, history, session>>

\* The price filter applied to one list.
FilterByPrice ==
  /\ op = "idle"
  /\ \E restaurants \in PricedLists,
        budget_or_tier \in BudgetWords \cup PriceTiers \cup {"cheap"} :
       /\ op' = "filter_by_price"
       /\ args' = [restaurants |-> restaurants, budget_or_tier |-> budget_or_tier]
       /\ out' = [restaurants |-> filter_by_price(restaurants, budget_or_tier)]
  /\ UNCHANGED <<store, reservations, req, agent, context, history, session>>

FilterByCuisine ==
  /\ op = "idle"
  /\ \E restaurants \in CuisineLists, cuisine \in CuisineArguments :
       /\ op' = "filter_by_cuisine"
       /\ args' = [restaurants |-> restaurants, cuisine |-> cuisine]
       /\ out' = [restaurants |-> filter_by_cuisine(restaurants, cuisine)]
  /\ UNCHANGED <<store, reservations, req, agent, context, history, session>>

\* POST /api/availability or /api/reservations, up to the restaurant
\* lookup.
Lookup(c, endpoint) ==
  /\ req[c].pc = "idle"
  /\ Len(reservations) < MaxReservations
  /\ \E request_data \in RequestBodies, raises \in BOOLEAN :
       req' = [req EXCEPT ![c] = find_restaurant(endpoint, request_data, store, raises)]
  /\ UNCHANGED <<store, op, args, out, reservations, agent, context, history, session>>

\* The reservations query and the capacity test of either handler.
Read(c, endpoint) ==
  /\ req[c].pc = "found"
  /\ req[c].endpoint = endpoint
  /\ \E raises \in BOOLEAN :
       req' = [req EXCEPT ![c] = read_reservations(req[c], reservations, raises)]
  /\ UNCHANGED <<store, op, args, out, reservations, agent, context, history, session>>

CheckAvailabilityLookup == \E c \in Clients : Lookup(c, "availability")

CheckAvailabilityRead == \E c \in Clients : Read(c, "availability")

CreateReservationLookup == \E c \in Clients : Lookup(c, "reservations")

CreateReservationRead == \E c \in Clients : Read(c, "reservations")

CreateReservationInsert ==
  \E c \in Clients :
    /\ req[c].pc = "checked"
    /\ \E result \in InsertResults :
         LET after == insert_reservation(req[c], reservations, result)
         IN /\ reservations' = after.table
            /\ req' = [req EXCEPT ![c] = after.request]
    /\ UNCHANGED <<store, op, args, out, agent, context, history, session>>

\* The response leaves; the client may post again.
Reply ==
  \E c \in Clients :
    /\ req[c].pc = "done"
    /\ req' = [req EXCEPT ![c] = NoRequest]
    /\ UNCHANGED <<store, op, args, out, reservations, agent, context, history, session>>

Next ==
  \/ GetRecommendations
  \/ FallbackStrategy1
  \/ FallbackStrategy2
  \/ InsertRestaurants
  \/ DeleteRestaurants
  \/ Respond

\* The scorer operations take their whole input as arguments; they are
\* exercised on their own, with no table behind them.
ScorerInit ==
  /\ store = <<>>
  /\ op = "idle"
  /\ args = NoArgs
  /\ out = NoArgs
  /\ reservations = <<>>
  /\ req = [c \in Clients |-> NoRequest]
  /\ NoAgentState

ReservationInit ==
  /\ store = ReservationRestaurants
  /\ op = "idle"
  /\ args = NoArgs
  /\ out = NoArgs
  /\ reservations = <<>>
  /\ req = [c \in Clients |-> NoRequest]
  /\ NoAgentState

ReservationNext ==
  \/ CheckAvailabilityLookup
  \/ CheckAvailabilityRead
  \/ CreateReservationLookup
  \/ CreateReservationRead
  \/ CreateReservationInsert
  \/ Reply

ReservationSpec == ReservationInit /\ [][ReservationNext]_vars

\* Reservations tables in which no slot is over capacity.
SequentialTables ==
  { <<>>, <<ReservationRow(<<>>, Body("2", 4, "19:00"))>>,
    <<ReservationRow(<<>>, Body("2", 6, "19:00"))>> }

SequentialInit ==
  /\ store = ReservationRestaurants
  /\ op = "idle"
  /\ args = NoArgs
  /\ out = NoArgs
  /\ reservations \in SequentialTables
  /\ req = [c \in Clients |-> NoRequest]
  /\ NoAgentState

\* POST /api/reservations arriving when no other request is being handled.
CreateReservationAlone ==
  /\ \A c \in Clients : req[c].pc = "idle"
  /\ CreateReservationLookup

SequentialNext ==
  \/ CreateReservationAlone
  \/ CreateReservationRead
  \/ CreateReservationInsert
  \/ Reply

SequentialSpec == SequentialInit /\ [][SequentialNext]_vars

ScorerNext ==
  \/ CheckAvailabilityAndApplyFallback
  \/ FilterByPrice
  \/ FilterByCuisine
  \/ Respond

ScorerSpec == ScorerInit /\ [][ScorerNext]_vars

Spec == Init /\ [][Next]_vars

(* --------------------------- agent actions ----------------------------- *)
\* What the model passes to the search tool.
SearchParameters ==
  { c @@ l @@ m : c \in OptionalKey("cuisine", {italian, <<>>}),
                  l \in OptionalKey("location", {nyc}),
                  m \in OptionalKey("min_rating", {45}) }

\* What the model passes to the availability tool.
AvailabilityParameters ==
  { [restaurant_name |-> n, date |-> d, time |-> "19:00", party_size |-> 4] :
      n \in {bella, Osteria, Zed}, d \in {"D+0", "D-365", "tomorrow", ""} }

\* What the model passes to the reservation tool: complete parameters,
\* ones with one field missing or empty, a party size that is no number, a
\* restaurant_name that is null.
CreateParameters ==
  LET p == [restaurant_name |-> bella, customer_name |-> "Ann",
            customer_email |-> AnnEmail, party_size |-> Number(4),
            reservation_date |-> "D+0", reservation_time |-> "19:00"]
  IN { p, [p EXCEPT !.party_size = Number(6)], [p EXCEPT !.party_size = Text("6")],
       [p EXCEPT !.party_size = Text("four")], [p EXCEPT !.party_size = Number(0)],
       [p EXCEPT !.restaurant_name = Bella], [p EXCEPT !.restaurant_name = Zed],
       [p EXCEPT !.restaurant_name = None], [p EXCEPT !.restaurant_name = Osteria],
       [p EXCEPT !.customer_name = ""], [p EXCEPT !.customer_email = <<>>],
       [p EXCEPT !.reservation_date = ""], [p EXCEPT !.reservation_date = "D-365"],
       [p EXCEPT !.reservation_date = "D-1"], [p EXCEPT !.reservation_date = "tomorrow"],
       [p EXCEPT !.reservation_time = ""] }
     \cup { WithoutKey(p, k) : k \in DOMAIN p }

\* What the model passes to the recommendations tool.
RecommendationParameters ==
  { c @@ b : c \in OptionalKey("cuisine", {italian, french}),
             b \in OptionalKey("budget", {"upscale", "luxury"}) }

ToolParameters(tool_name) ==
  CASE tool_name = "search_restaurants" -> SearchParameters
    [] tool_name = "check_availability" -> AvailabilityParameters
    [] tool_name = "create_reservation" -> CreateParameters
    [] tool_name = "get_recommendations" -> RecommendationParameters
    [] OTHER -> {<<>>}

\* A reservation body as the reservation tool builds it.
Submitted(restaurant_id, party_size, date) ==
  [restaurant_id |-> restaurant_id, user_name |-> "Ann", user_email |-> AnnEmail,
   party_size |-> party_size, date |-> date, time |-> "19:00", special_requests |-> ""]

\* The params _call_api is given for an endpoint.
CallParameters(endpoint) ==
  CASE endpoint = "restaurants" -> { <<>>, [cuisine |-> italian] }
    [] endpoint = "reservations" ->
         { Submitted("2", 4, "D+0"), Submitted("2", 6, "D+0"), Submitted("2", 21, "D+0"),
           Submitted("2", 4, "D-1"), Submitted("9", 4, "D+0"), Submitted("5", 4, "D+0"),
           WithoutKey(Submitted("2", 4, "D+0"), "user_email") }
    [] endpoint = "availability" ->
         AvailabilityParameters
           \cup { [restaurant_id |-> "2", date |-> "D+0", time |-> "19:00",
                   party_size |-> p] : p \in {4, 6} }
    [] endpoint = "recommendations/smart" -> RecommendationParameters
    [] OTHER -> {<<>>}

\* The behaviours of the second _call_api of a tool: only the reservation
\* tool makes one.
SecondCall(tool_name, behaviours, only) ==
  IF tool_name = "create_reservation" THEN behaviours ELSE {only}

AgentInit ==
  /\ store = AgentRestaurants
  /\ op = "idle"
  /\ args = NoArgs
  /\ out = NoArgs
  /\ reservations = <<>>
  /\ req = [c \in Clients |-> NoRequest]
  /\ agent \in Agents
  /\ context = <<system_prompt>>
  /\ history = <<>>
  /\ session = NoSession

\* A _call_api, or the _call_api of a tool, waits for the API or stands
\* before a store call.
UnderWay == {"_call_api under way", "_process_tool under way"}

\* _call_api is called and sends its request, which the handler takes up
\* to its query on the reservations table; args keeps the inputs.
CallApi ==
  /\ op = "idle"
  /\ Len(reservations) < MaxReservations
  /\ \E endpoint \in Endpoints, method \in {"GET", "POST"}, api \in ApiBehaviours,
        db \in InsertResults :
       \E params \in CallParameters(endpoint) :
          /\ op' = "_call_api under way"
          /\ args' = [endpoint |-> endpoint, params |-> params, method |-> method,
                      api |-> api, db |-> db]
          /\ out' = [call |-> SendRequest(agent, NewCall(endpoint, params, method, api, db),
                                          store, reservations)]
  /\ UNCHANGED <<store, reservations, req, agent, context, history, session>>

\* The handler that serves the agent's request reads the reservations
\* table.
HandlerReads ==
  /\ op \in UnderWay
  /\ out.call.pc = "read"
  /\ out' = [out EXCEPT !.call = HandlerRead(out.call, reservations, store)]
  /\ UNCHANGED <<store, op, args, reservations, req, agent, context, history, session>>

\* The handler inserts the reservation and answers.
HandlerInserts ==
  /\ op \in UnderWay
  /\ out.call.pc = "insert"
  /\ \E done \in {HandlerInsert(out.call, reservations, store)} :
       /\ out' = [out EXCEPT !.call = done.call]
       /\ reservations' = done.table
  /\ UNCHANGED <<store, op, args, req, agent, context, history, session>>

\* _call_api got no 200 or 201 and runs the Supabase fallback.
FallsBack ==
  /\ op \in UnderWay
  /\ out.call.pc = "fallback"
  /\ \E done \in {SupabaseFallback(agent, out.call, store, reservations)} :
       /\ out' = [out EXCEPT !.call = done.call]
       /\ reservations' = done.table
  /\ UNCHANGED <<store, op, args, req, agent, context, history, session>>

\* _call_api returns: out keeps the result, the calls made, the API's
\* response, the table the last store call found and the rows inserted.
CallReturns ==
  /\ op = "_call_api under way"
  /\ out.call.pc = "returned"
  /\ op' = "_call_api"
  /\ out' = [result |-> out.call.result, calls |-> out.call.calls,
             response |-> out.call.response, found |-> out.call.found,
             written |-> out.call.written]
  /\ UNCHANGED <<store, args, reservations, req, agent, context, history, session>>

\* Another client's reservation reaches the table while the agent is idle
\* or one of its calls is under way: a party of six at Bella today at
\* 19:00, inserted by a handler whose capacity test was passed when it
\* read.
OtherReservation ==
  /\ op \in {"idle"} \cup UnderWay
  /\ Len(reservations) < MaxReservations
  /\ reservations' = Append(reservations,
                            ReservationRow(reservations, Body("2", 6, "19:00")))
  /\ UNCHANGED <<store, op, args, out, req, agent, context, history, session>>

\* The tool's message is returned: out keeps it, the calls made and the
\* rows inserted.
ToolEnds(last, calls, written) ==
  /\ op' = "_process_tool"
  /\ out' = [message |-> last.message, calls |-> calls, written |-> written]
  /\ agent' = last.self

\* The tool makes a _call_api, which sends its request.
ToolCalls(next, api, db, returned, calls, written) ==
  /\ op' = "_process_tool under way"
  /\ out' = [call |-> SendRequest(agent, NewCall(next.endpoint, next.params,
                                                 next.method, api, db),
                                  store, reservations),
             returned |-> returned, calls |-> calls, written |-> written]
  /\ agent' = agent

\* _process_tool is called and runs up to the first _call_api of its tool
\* or, when it makes none, to its end; api and db are the behaviour of the
\* API and of the store during the tool's first _call_api, api2 and db2
\* during its second.
ProcessTool ==
  /\ op = "idle"
  /\ Len(reservations) < MaxReservations
  /\ \E tool_name \in ToolNames \cup {"order_pizza"}, api \in ApiBehaviours,
        db \in InsertResults :
       \E parameters \in ToolParameters(tool_name),
          api2 \in SecondCall(tool_name, ApiBehaviours, "answers"),
          db2 \in SecondCall(tool_name, InsertResults, "row") :
          \E next \in {_process_tool(agent, tool_name, parameters, <<>>)} :
             /\ args' = [tool_name |-> tool_name, parameters |-> parameters,
                         api |-> api, db |-> db, api2 |-> api2, db2 |-> db2]
             /\ IF "message" \in DOMAIN next THEN ToolEnds(next, <<>>, <<>>)
                ELSE ToolCalls(next, api, db, <<>>, <<>>, <<>>)
  /\ UNCHANGED <<store, reservations, req, context, history, session>>

\* A _call_api of the tool returns, and the tool runs on to its next
\* _call_api or to its end.
ToolResumes ==
  /\ op = "_process_tool under way"
  /\ out.call.pc = "returned"
  /\ \E returned \in {Append(out.returned, out.call.result)} :
       \E next \in {_process_tool(agent, args.tool_name, args.parameters, returned)} :
          IF "message" \in DOMAIN next
            THEN ToolEnds(next, out.calls \o out.call.calls,
                          out.written \o out.call.written)
          ELSE ToolCalls(next, args.api2, args.db2, returned,
                         out.calls \o out.call.calls, out.written \o out.call.written)
  /\ UNCHANGED <<store, args, reservations, req, context, history, session>>

AgentNext ==
  \/ CallApi
  \/ ProcessTool
  \/ HandlerReads
  \/ HandlerInserts
  \/ FallsBack
  \/ CallReturns
  \/ ToolResumes
  \/ OtherReservation
  \/ Respond

AgentSpec == AgentInit /\ [][AgentNext]_vars

(* ---------------------------- chat actions ----------------------------- *)
\* A new agent, the module's singleton (925) that every Streamlit session
\* imports (streamlit_app.py 7): the context holds the system prompt, and
\* no thread is in chat.
ChatInit ==
  /\ store = AgentRestaurants
  /\ op = "idle"
  /\ args = [overlaps |-> 0]
  /\ out = NoReset
  /\ reservations = <<>>
  /\ req = [c \in Clients |-> NoCall]
  /\ agent = ChatAgent
  /\ context = <<system_prompt>>
  /\ history = <<>>
  /\ session = NoSession

\* The call of thread c returns; history keeps the kind of every call.
Returned(c, kind) ==
  /\ req' = [req EXCEPT ![c] = NoCall]
  /\ history' = [history EXCEPT ![req[c].n] = kind]

\* Some thread is in chat.
InChat == \E d \in Clients : req[d].pc # "idle"

\* The threads are alike: a call is given to the first one that is free.
FirstFree(c) == req[c].pc = "idle" /\ \A d \in Clients : d < c => req[d].pc # "idle"

\* A session calls chat (streamlit_app.py 755) on its own thread: a blank
\* input returns at once, any other is appended to the context (808-812).
\* args counts the calls that began while another was under way, of which
\* a behaviour has at most MaxOverlaps.
Chat(c) ==
  /\ FirstFree(c)
  /\ Len(history) < MaxTurns
  /\ \E user_input \in UserInputs :
       IF strip(user_input) = <<>>
         THEN /\ history' = Append(history, "blank")
              /\ UNCHANGED <<args, context, req>>
       ELSE /\ InChat => args.overlaps < MaxOverlaps
            /\ args' = [overlaps |-> args.overlaps + IF InChat THEN 1 ELSE 0]
            /\ context' = Append(context, UserMessage(user_input))
            /\ req' = [req EXCEPT ![c] = [NoCall EXCEPT !.pc = "appended",
                                                        !.n = Len(history) + 1]]
            /\ history' = Append(history, "under way")
  /\ UNCHANGED <<store, op, out, reservations, agent, session>>

\* The test of line 815.
TestsLength(c) ==
  /\ req[c].pc = "appended"
  /\ req' = [req EXCEPT ![c].pc = IF TooLong(context) THEN "tested" ELSE "ready"]
  /\ UNCHANGED <<store, op, args, out, reservations, agent, context, history, session>>

\* The right-hand side of line 816, read from the context as it is now.
Slices(c) ==
  /\ req[c].pc = "tested"
  /\ req' = [req EXCEPT ![c].pc = "sliced", ![c].sliced = Slice(context)]
  /\ UNCHANGED <<store, op, args, out, reservations, agent, context, history, session>>

\* The assignment of line 816.
AssignsContext(c) ==
  /\ req[c].pc = "sliced"
  /\ context' = req[c].sliced
  /\ req' = [req EXCEPT ![c].pc = "ready", ![c].sliced = <<>>]
  /\ UNCHANGED <<store, op, args, out, reservations, agent, history, session>>

\* The first completion request (819-825) is sent with the context as it
\* is now.
FirstRequest(c) ==
  /\ req[c].pc = "ready"
  /\ req' = [req EXCEPT ![c].pc = "waiting"]
  /\ UNCHANGED <<store, op, args, out, reservations, agent, context, history, session>>

\* The first completion answers in words, answers with tool calls, or
\* raises (827-834, 882-888).
FirstAnswer(c) ==
  /\ req[c].pc = "waiting"
  /\ \E first \in Completions :
       IF first = "raises"
         THEN /\ context' = Append(context, ErrorMessage)
              /\ Returned(c, "failed")
       ELSE IF first = "content"
         THEN /\ context' = Append(context, AssistantMessage(req[c].n, first, <<>>))
              /\ Returned(c, "plain")
       ELSE \E tool_calls \in ToolCallLists :
              /\ context' = Append(context, AssistantMessage(req[c].n, first, tool_calls))
              /\ req' = [req EXCEPT ![c].pc = "tools", ![c].tool_calls = tool_calls,
                                    ![c].k = 1]
              /\ UNCHANGED history
  /\ UNCHANGED <<store, op, args, out, reservations, agent, session>>

\* The next tool call is parsed and run (840-841, 850-852).
RunsTool(c) ==
  /\ req[c].pc = "tools"
  /\ \E done \in {ToolResult(agent, req[c].tool_calls[req[c].k], store, reservations)} :
       /\ agent' = done.self
       /\ reservations' = done.table
       /\ req' = [req EXCEPT ![c].pc = "ran", ![c].result = done.message]
  /\ UNCHANGED <<store, op, args, out, context, history, session>>

\* Its tool message is appended (848, 858), and the loop goes on or ends.
AppendsToolMessage(c) ==
  /\ req[c].pc = "ran"
  /\ context' = Append(context, ToolMessage(req[c].result, req[c].n, req[c].k))
  /\ req' = [req EXCEPT ![c].pc = IF req[c].k < Len(req[c].tool_calls) THEN "tools"
                                  ELSE "asking",
                        ![c].k = req[c].k + 1, ![c].result = NoneResult]
  /\ UNCHANGED <<store, op, args, out, reservations, agent, history, session>>

\* The final completion request (862-867) is sent with the context as it
\* is now.
FinalRequest(c) ==
  /\ req[c].pc = "asking"
  /\ req' = [req EXCEPT ![c].pc = "final waiting"]
  /\ UNCHANGED <<store, op, args, out, reservations, agent, context, history, session>>

\* The final completion answers, and its message is appended (869-876),
\* or raises (878-880).
FinalAnswer(c) ==
  /\ req[c].pc = "final waiting"
  /\ \E final \in {"content", "raises"} :
       context' = IF final = "raises" THEN context ELSE Append(context, FinalMessage)
  /\ Returned(c, "tools")
  /\ UNCHANGED <<store, op, args, out, reservations, agent, session>>

\* reset_conversation() is called, whatever the threads in chat are
\* doing, and assigns the context (892); out keeps where the call is.
ResetConversation ==
  /\ out = NoReset
  /\ Len(history) < MaxTurns
  /\ context' = <<system_prompt>>
  /\ out' = [pc |-> "context reset"]
  /\ history' = Append(history, "reset")
  /\ UNCHANGED <<store, op, args, reservations, req, agent, session>>

\* Line 893 and the return.
ClearsSearchResults ==
  /\ out = [pc |-> "context reset"]
  /\ agent' = [agent EXCEPT !.last_search_results = <<>>]
  /\ out' = NoReset
  /\ UNCHANGED <<store, op, args, reservations, req, context, history, session>>

ChatNext ==
  \/ ResetConversation
  \/ ClearsSearchResults
  \/ \E c \in Clients :
        \/ Chat(c)
        \/ TestsLength(c)
        \/ Slices(c)
        \/ AssignsContext(c)
        \/ FirstRequest(c)
        \/ FirstAnswer(c)
        \/ RunsTool(c)
        \/ AppendsToolMessage(c)
        \/ FinalRequest(c)
        \/ FinalAnswer(c)

ChatSpec == ChatInit /\ [][ChatNext]_vars

(* -------------------------- Streamlit actions -------------------------- *)
\* A new session: last_api_call is None.
StreamlitInit ==
  /\ store = <<>>
  /\ op = "idle"
  /\ args = NoArgs
  /\ out = NoArgs
  /\ reservations = <<>>
  /\ req = [c \in Clients |-> NoRequest]
  /\ agent = NoAgent
  /\ context = <<>>
  /\ history = <<>>
  /\ session = NoSession

\* make_api_request is called and runs to its return or to the HTTP
\* request; args keeps the request, the answer once it is there and the
\* session before, history every HTTP request sent with its answer.
MakeApiRequest ==
  /\ op = "idle"
  /\ Len(history) < MaxRequests
  /\ \E request \in ClientRequests :
       \E run \in {make_api_request(session, request.endpoint, request.method,
                           request.data)} :
          /\ op' = IF run.pc = "returned" THEN "make_api_request"
                   ELSE "make_api_request under way"
          /\ args' = [request |-> request, response |-> NoResponse, session |-> session]
          /\ out' = run
  /\ UNCHANGED <<store, reservations, req, agent, context, history, session>>

\* requests.get / requests.post returns or raises.
ResponseArrives ==
  /\ op = "make_api_request under way"
  /\ out.pc = "sent"
  /\ \E response \in Responses :
       \E run \in {Received(out, response)} :
          /\ op' = IF run.pc = "returned" THEN "make_api_request"
                   ELSE "make_api_request under way"
          /\ args' = [args EXCEPT !.response = response]
          /\ out' = run
          /\ history' = Append(history, [request |-> args.request, response |-> response])
  /\ UNCHANGED <<store, reservations, req, agent, context, session>>

\* Line 684.
WritesKey ==
  /\ op = "make_api_request under way"
  /\ out.pc = "answered"
  /\ session' = KeyWritten(session, out)
  /\ out' = [out EXCEPT !.pc = "key written"]
  /\ UNCHANGED <<store, op, args, reservations, req, agent, context, history>>

\* Line 685 and the return.
WritesResult ==
  /\ op = "make_api_request under way"
  /\ out.pc = "key written"
  /\ session' = ResultWritten(session, out)
  /\ op' = "make_api_request"
  /\ out' = [out EXCEPT !.pc = "returned"]
  /\ UNCHANGED <<store, args, reservations, req, agent, context, history>>

\* The script run is stopped for a rerun (the user touched a widget): an
\* access to st.session_state is one of the points where the script thread
\* raises the rerun, which is no Exception and passes the except clauses
\* of 691-696.  The call does not return; the session stays as the run
\* left it.
ScriptStopped ==
  /\ op = "make_api_request under way"
  /\ out.pc \in {"answered", "key written"}
  /\ op' = "script stopped"
  /\ UNCHANGED <<store, args, out, reservations, req, agent, context, history, session>>

StreamlitNext ==
  \/ MakeApiRequest
  \/ ResponseArrives
  \/ WritesKey
  \/ WritesResult
  \/ ScriptStopped
  \/ Respond

StreamlitSpec == StreamlitInit /\ [][StreamlitNext]_vars

(* ----------------------------- properties ------------------------------ *)
IsRequest == op = "get_recommendations"

ResultKeys == {"recommendations", "fallback_used", "total_count", "response_time", "message"}

\* The message literals of recommendation_engine.py that contain a phrase.
TemplatesContaining(phrase) ==
  CASE phrase = "No restaurants found" -> {"No restaurants found matching your criteria"}
    [] phrase = "Error generating recommendations" -> {}
    [] OTHER -> {}

MessageContains(message, phrase) == message.template \in TemplatesContaining(phrase)

\* The rows the primary query of the request in args returns from the
\* table as it is; in a state whose result has fallback_used = False the
\* table is the one the primary select read.
PrimaryRows == PrimaryQuery(store, args.preferences, args.limit)

\* The primary fetch succeeded and scoring one of its rows raised.
ProcessingRaised ==
  /\ IsRequest
  /\ ~args.fail.primary
  /\ args.primary = "scoring raised"

\* C1 (as claimed): when the restaurant fetch raises, get_recommendations
\* returns no recommendations, fallback_used = False, a message containing
\* "No restaurants found" and response_time >= 0.
C1_FetchErrorYieldsNoRestaurantsFound ==
  (IsRequest /\ args.fail.primary) =>
     /\ DOMAIN out = ResultKeys
     /\ out.recommendations = <<>>
     /\ out.fallback_used = FALSE
     /\ MessageContains(out.message, "No restaurants found")
     /\ out.response_time >= 0

\* C2 (as claimed): when the fetch succeeds and a later processing step
\* raises, get_recommendations returns no recommendations, a message
\* containing "Error generating recommendations" and response_time >= 0.
C2_ProcessingErrorYieldsErrorMessage ==
  ProcessingRaised =>
     /\ DOMAIN out = ResultKeys
     /\ out.recommendations = <<>>
     /\ MessageContains(out.message, "Error generating recommendations")
     /\ out.response_time >= 0

\* C3: get_recommendations never propagates an exception: whatever the
\* preferences and whichever of the three store calls raise, it returns a
\* result with recommendations, fallback_used, total_count, response_time
\* and message.
C3_AlwaysReturnsWellFormedResult ==
  IsRequest => DOMAIN out = ResultKeys

\* C3 witness: every store call raised and a well-formed result came back.
C3_Witness ==
  /\ IsRequest
  /\ args.fail.primary /\ args.fail.relaxed /\ args.fail.unfiltered
  /\ DOMAIN out = ResultKeys
  /\ out.recommendations = <<>>

\* The request in args has no cuisine, city or price filter.
NoFilters ==
  /\ ~Has(args.preferences, "cuisine")
  /\ ~Has(args.preferences, "city")
  /\ ~Has(args.preferences, "price_range")

HasScore(r) == "recommendation_score" \in DOMAIN r

\* The score of a returned restaurant: the one it carries, else the one
\* the scorer gives it under the request's preferences.
ScoreOf(r) ==
  IF HasScore(r) THEN r.recommendation_score
  ELSE _calculate_restaurant_score(r, args.preferences)

Scorable(r) == HasScore(r) \/ ~ScoreRaises(r, args.preferences)

\* C4: with no cuisine, city or price filter the returned recommendations
\* are ordered by non-increasing score, on every path.
C4_NoFilterResultsSortedByScore ==
  (IsRequest /\ NoFilters) =>
     \A i, j \in 1..Len(out.recommendations) :
        (i < j /\ Scorable(out.recommendations[i]) /\ Scorable(out.recommendations[j]))
           => ScoreOf(out.recommendations[i]) >= ScoreOf(out.recommendations[j])

\* C5: on every path the number of recommendations returned is at most
\* the limit of the request.
C5_AtMostLimit ==
  IsRequest => Len(out.recommendations) <= args.limit

\* C5 witness: the primary query returned more rows than the limit and
\* exactly limit of them were returned.
C5_Witness ==
  /\ IsRequest /\ args.limit >= 1
  /\ out.fallback_used = FALSE
  /\ out.total_count > args.limit
  /\ Len(out.recommendations) = args.limit

NoCallFails == ~args.fail.primary /\ ~args.fail.relaxed /\ ~args.fail.unfiltered

\* C6: for limit >= 1, when the table holds at least one restaurant at the
\* select that answers the request and no store call fails, the returned
\* recommendations are not empty, whatever was written to the table
\* between the selects of the request.
C6_NeverEmptyWhenCandidateExists ==
  (IsRequest /\ args.limit >= 1 /\ NoCallFails /\ store # <<>>) =>
     out.recommendations # <<>>

\* C6 witness: the primary and the relaxed query both came back empty and
\* the unfiltered query supplied the recommendations.
C6_Witness ==
  /\ IsRequest /\ args.limit >= 1 /\ NoCallFails
  /\ args.primary = "no restaurants"
  /\ PrimaryRows = <<>>
  /\ RelaxedQuery(store, args.preferences, args.limit) = <<>>
  /\ out.recommendations = UnfilteredQuery(store, args.limit)
  /\ out.recommendations # <<>>

IsLadder == op = "check_availability_and_apply_fallback"

\* Candidates of the ladder call in args that were answered available.
AvailableOfArgs == SelectSeq(args.restaurants, LAMBDA r : IsAvailable(r, args.answers))
UnavailableOfArgs == SelectSeq(args.restaurants, LAMBDA r : ~IsAvailable(r, args.answers))

\* C7: when no candidate is available, the ladder returns the first
\* min(5, n) of the n candidates, none of the omitted ones is rated higher
\* than a returned one, fallback_used is true and available_count is 0.
C7_NoneAvailableReturnsTopFive ==
  (IsLadder /\ AvailableOfArgs = <<>>) =>
     LET n == Len(args.restaurants)
     IN /\ out.restaurants = SubSeq(args.restaurants, 1, Min(5, n))
        /\ \A r \in Range(out.restaurants) :
             \A q \in Range(args.restaurants) \ Range(out.restaurants) :
                r.rating >= q.rating
        /\ out.fallback_used = TRUE
        /\ out.available_count = 0

\* C7 witness: more than five candidates, none available, five returned.
C7_Witness ==
  /\ IsLadder /\ AvailableOfArgs = <<>>
  /\ Len(args.restaurants) > 5
  /\ Len(out.restaurants) = 5
  /\ out.fallback_used = TRUE

\* C8: when exactly one or two candidates are available, the ladder
\* returns all of them plus min(2, u) of the u unavailable candidates, no
\* omitted unavailable candidate is rated higher than an added one, and
\* fallback_used is true.
C8_FewAvailableAugmentedWithTopTwo ==
  (IsLadder /\ Len(AvailableOfArgs) \in {1, 2}) =>
     LET added == Range(out.restaurants) \ Range(AvailableOfArgs)
     IN /\ Range(AvailableOfArgs) \subseteq Range(out.restaurants)
        /\ added \subseteq Range(UnavailableOfArgs)
        /\ Cardinality(added) = Min(2, Len(UnavailableOfArgs))
        /\ Len(out.restaurants) = Len(AvailableOfArgs) + Cardinality(added)
        /\ \A r \in added : \A q \in Range(UnavailableOfArgs) \ added :
             r.rating >= q.rating
        /\ out.fallback_used = TRUE

\* C8 witness: one available candidate, three unavailable ones of which
\* two were added and a lower-rated one was left out.
C8_Witness ==
  /\ IsLadder /\ Len(AvailableOfArgs) = 1
  /\ Len(UnavailableOfArgs) >= 3
  /\ Len(out.restaurants) = 3
  /\ \E q \in Range(UnavailableOfArgs) \ Range(out.restaurants) :
        \E r \in Range(out.restaurants) \ Range(AvailableOfArgs) : r.rating > q.rating

\* C9: when at least three candidates are available, the ladder returns
\* exactly the available candidates in their original order, adds no
\* unavailable one, and fallback_used is false.
C9_EnoughAvailableReturnedUnmodified ==
  (IsLadder /\ Len(AvailableOfArgs) >= 3) =>
     /\ out.restaurants = AvailableOfArgs
     /\ Range(out.restaurants) \cap Range(UnavailableOfArgs) = {}
     /\ out.fallback_used = FALSE

\* C9 witness: exactly three of five candidates are available and the
\* result is those three.
C9_Witness ==
  /\ IsLadder /\ Len(AvailableOfArgs) = 3 /\ Len(args.restaurants) >= 5
  /\ Len(out.restaurants) = 3
  /\ out.fallback_used = FALSE

IsPriceFilter == op = "filter_by_price"

\* Restaurants of the filter call in args whose tier is t.
OfTier(t) == SelectSeq(args.restaurants, LAMBDA r : r.price_range = t)

\* The tiers one ordinal step above or below t.
AdjacentTiers(t) ==
  { u \in PriceTiers : TierIndex(u) = TierIndex(t) + 1 \/ TierIndex(u) = TierIndex(t) - 1 }

\* C10: with a valid tier or budget word, filter_by_price returns exactly
\* the restaurants of that tier when there is one, and otherwise exactly
\* the restaurants of the neighbouring tiers.
C10_ExactTierElseAdjacent ==
  (IsPriceFilter /\ TierOf(args.budget_or_tier) # "") =>
     LET t == TierOf(args.budget_or_tier)
     IN IF \E i \in 1..Len(args.restaurants) : args.restaurants[i].price_range = t
        THEN out.restaurants = OfTier(t)
        ELSE out.restaurants =
               SelectSeq(args.restaurants, LAMBDA r : r.price_range \in AdjacentTiers(t))

\* C10 witness: budget "luxury", no $$$$ restaurant, a $$$ one returned.
C10_Witness ==
  /\ IsPriceFilter /\ args.budget_or_tier = "luxury"
  /\ OfTier("$$$$") = <<>>
  /\ \E i \in 1..Len(out.restaurants) : out.restaurants[i].price_range = "$$$"
  /\ \E i \in 1..Len(args.restaurants) : args.restaurants[i].price_range = "$"
  /\ \A i \in 1..Len(out.restaurants) : out.restaurants[i].price_range = "$$$"

\* The ids of a list of restaurants, in order.
Ids(restaurants) == [i \in 1..Len(restaurants) |-> restaurants[i].id]

\* C11 (as claimed): a malformed price preference is never an error and
\* filters nothing: the primary query and scoring of the request give what
\* they give, on the same table, for the same request without a price
\* preference: the same restaurants in the same order, or the fallback.
C11_MalformedPriceFiltersNothing ==
  [][(/\ op = "idle"
      /\ op' \in {"get_recommendations", "_get_fallback_recommendations"}
      /\ Has(args'.preferences, "price_range")
      /\ args'.preferences.price_range \notin PriceTiers)
     => LET plain == RecommendTry(store, WithoutKey(args'.preferences, "price_range"),
                                  args'.limit, args'.fail, args'.elapsed)
        IN IF GoesToFallback(plain)
           THEN op' = "_get_fallback_recommendations"
           ELSE /\ op' = "get_recommendations"
                /\ Ids(out'.recommendations) = Ids(plain.recommendations)]_vars

IsCuisineFilter == op = "filter_by_cuisine"

\* C12: with a non-empty cuisine, filter_by_cuisine returns exactly the
\* restaurants whose cuisine equals it ignoring case (a cuisine that merely
\* contains it is no match), ordered by rating descending.
C12_CuisineFilterExactIgnoringCase ==
  (IsCuisineFilter /\ args.cuisine \notin {None, <<>>}) =>
     LET given == args.restaurants
         kept == out.restaurants
     IN /\ Range(kept) = { r \in Range(given) : Lower(r.cuisine) = Lower(args.cuisine) }
        /\ \A i, j \in 1..Len(kept) : i # j => kept[i] # kept[j]
        /\ \A i \in 1..(Len(kept) - 1) : kept[i].rating >= kept[i + 1].rating

\* A list holding the cuisine in two spellings, rated in ascending order,
\* and a cuisine that only contains it: the two are returned, reordered.
C12_Witness ==
  /\ IsCuisineFilter
  /\ args.cuisine = Italian
  /\ \E i \in 1..Len(args.restaurants) : args.restaurants[i].cuisine = ItalianAmerican
  /\ \E i \in 1..Len(args.restaurants) : args.restaurants[i].cuisine = italian
  /\ Len(out.restaurants) = 2
  /\ out.restaurants[1].id > out.restaurants[2].id
  /\ out.restaurants[1].rating > out.restaurants[2].rating

\* C13: with an empty or absent cuisine, filter_by_cuisine returns its
\* input: the same elements in the same order.
C13_NoCuisinePassesThrough ==
  (IsCuisineFilter /\ args.cuisine \in {None, <<>>}) =>
     out.restaurants = args.restaurants

\* An absent cuisine over a list that is not in rating order.
C13_Witness ==
  /\ IsCuisineFilter
  /\ args.cuisine = None
  /\ Len(args.restaurants) >= 2
  /\ args.restaurants[1].rating < args.restaurants[2].rating
  /\ args.restaurants[1].cuisine # args.restaurants[2].cuisine
  /\ out.restaurants = args.restaurants

\* The additive score of a restaurant, in hundredths: rating x 2.0, plus
\* proximity x 3.0 when a city is preferred (1.0 in that city ignoring case,
\* 0.3 elsewhere), plus 1.5 for the preferred price tier, plus 2.5 for the
\* preferred cuisine ignoring case, plus 4.0 for an available or unchecked
\* restaurant.
AdditiveScore(restaurant, preferences) ==
  restaurant.rating * 20
  + (IF ~Has(preferences, "city") THEN 0
     ELSE IF Lower(restaurant.city) = Lower(preferences.city) THEN 300 ELSE 90)
  + (IF Has(preferences, "price_range")
        /\ restaurant.price_range = preferences.price_range THEN 150 ELSE 0)
  + (IF Has(preferences, "cuisine")
        /\ Lower(restaurant.cuisine) = Lower(preferences.cuisine) THEN 250 ELSE 0)
  + 400

\* C14 (as claimed): the score of a recommended restaurant is the additive
\* weighted sum; an Italian, $$, rating 4.7 restaurant in the preferred
\* city, with all three preferences matching, scores 20.9.
C14_ScoreIsAdditiveWeightedSum ==
  (IsRequest /\ DOMAIN out = ResultKeys) =>
     \A i \in 1..Len(out.recommendations) :
        HasScore(out.recommendations[i]) =>
           ScoreOf(out.recommendations[i])
              = AdditiveScore(out.recommendations[i], args.preferences)

\* The position of the restaurant with an id in a list of restaurants.
PositionOf(id, restaurants) ==
  CHOOSE i \in 1..Len(restaurants) : restaurants[i].id = id

\* C15: ranking is stable: recommended restaurants with equal scores keep
\* the relative order in which the store returned them.
C15_EqualScoresKeepStoreOrder ==
  (IsRequest /\ out.fallback_used = FALSE) =>
     \A i, j \in 1..Len(out.recommendations) :
        (/\ i < j
         /\ out.recommendations[i].recommendation_score
              = out.recommendations[j].recommendation_score)
        => PositionOf(out.recommendations[i].id, PrimaryRows)
             < PositionOf(out.recommendations[j].id, PrimaryRows)

\* Two restaurants of different rating and capacity with one score, both
\* recommended, in a table that holds them in the opposite order.
C15_Witness ==
  /\ IsRequest
  /\ out.fallback_used = FALSE
  /\ \E i, j \in 1..Len(out.recommendations) :
        /\ i < j
        /\ out.recommendations[i].recommendation_score
             = out.recommendations[j].recommendation_score
        /\ out.recommendations[i].rating # out.recommendations[j].rating
        /\ PositionOf(out.recommendations[i].id, store)
             > PositionOf(out.recommendations[j].id, store)

(* ---------------- availability and reservation claims ------------------ *)
Handled(c) == req[c].pc # "idle"

Done(c) == req[c].pc = "done"

\* The request of a client fails validation: a field of its endpoint is
\* missing, the date is before today, the party size is outside 1..20, or
\* (for a reservation) the e-mail address is invalid.
FailsValidation(c) ==
  LET b == req[c].body
      required == {"restaurant_id", "date", "time", "party_size"}
                    \cup (IF req[c].endpoint = "reservations"
                            THEN {"user_email", "user_name"} ELSE {})
  IN \/ \E k \in required : k \notin DOMAIN b
     \/ "date" \in DOMAIN b /\ b.date < Today
     \/ "party_size" \in DOMAIN b /\ b.party_size \notin 1..20
     \/ /\ req[c].endpoint = "reservations"
        /\ "user_email" \in DOMAIN b
        /\ ~IsEmail(b.user_email)

\* C19: an availability or reservation request that fails validation is
\* answered 400 with success = false before any store call: it never
\* waits on the store, reads nothing and inserts no reservation.
C19_InvalidRequestAnswered400 ==
  \A c \in Clients :
     (Handled(c) /\ FailsValidation(c)) =>
        /\ Done(c)
        /\ req[c].status = 400
        /\ req[c].success = FALSE
        /\ req[c].inserted = 0
        /\ req[c].fault = ""

\* A reservation for a past date at a restaurant that does not exist is
\* answered 400, not 404, beside a table another request has written to.
C19_Witness ==
  \E c \in Clients :
     /\ Done(c)
     /\ req[c].endpoint = "reservations"
     /\ DOMAIN req[c].body = RequestFields("reservations")
     /\ req[c].body.date < Today
     /\ RestaurantById(store, req[c].body.restaurant_id) = <<>>
     /\ req[c].status = 400
     /\ reservations # <<>>

\* A finished, valid POST /api/reservations for a restaurant of the table.
ValidReservationDone(c) ==
  /\ Done(c)
  /\ req[c].endpoint = "reservations"
  /\ ~FailsValidation(c)
  /\ RestaurantById(store, req[c].body.restaurant_id) # <<>>

\* The party of a request fits into what the request found unreserved.
Fits(c) == req[c].capacity - req[c].total_reserved >= req[c].body.party_size

\* The reservation a request inserted is in the table, as it was posted.
RowInserted(c) ==
  /\ req[c].inserted = 1
  /\ req[c].row \in 1..Len(reservations)
  /\ reservations[req[c].row] = [id |-> req[c].row,
                                 restaurant_id |-> req[c].body.restaurant_id,
                                 user_email |-> req[c].body.user_email,
                                 user_name |-> req[c].body.user_name,
                                 party_size |-> req[c].body.party_size,
                                 reservation_date |-> req[c].body.date,
                                 reservation_time |-> req[c].body.time]

\* C20 (as claimed): a valid POST /api/reservations for an existing
\* restaurant has exactly two outcomes: 201 with exactly one reservation
\* inserted when capacity - reserved >= party size, otherwise 409 with
\* nothing inserted.
C20_CreatedOrConflict ==
  \A c \in Clients :
     ValidReservationDone(c) =>
        /\ req[c].status \in {201, 409}
        /\ req[c].status = 201 => (Fits(c) /\ RowInserted(c))
        /\ req[c].status = 409 => (~Fits(c) /\ req[c].inserted = 0)

\* C20 (amended): the request has three outcomes.  When every store call
\* succeeds and the capacity is not NULL it is answered 201 with exactly
\* one reservation inserted if capacity - reserved >= party size, and 409
\* with nothing inserted otherwise; when a store call raises, the capacity
\* is NULL or the insert returns no row it is answered 500 with
\* success = false and nothing inserted.
C20_CreatedConflictOrFailed ==
  \A c \in Clients :
     ValidReservationDone(c) =>
        /\ req[c].status \in {201, 409, 500}
        /\ req[c].status = 500 <=> req[c].fault # ""
        /\ req[c].status = 201 =>
             (req[c].capacity # NULL /\ Fits(c) /\ RowInserted(c) /\ req[c].success)
        /\ req[c].status = 409 =>
             (req[c].capacity # NULL /\ ~Fits(c) /\ req[c].inserted = 0
              /\ ~req[c].success)
        /\ req[c].status = 500 => (req[c].inserted = 0 /\ ~req[c].success)

\* A party of 6 that found 4 of 10 seats reserved is answered 201: it
\* takes the last seats.
C20_Witness ==
  \E c \in Clients :
     /\ ValidReservationDone(c)
     /\ req[c].status = 201
     /\ req[c].total_reserved = 4
     /\ req[c].capacity - req[c].total_reserved = req[c].body.party_size
     /\ RowInserted(c)

\* The request of a client has read the reservations of its slot.
HasRead(c) ==
  /\ req[c].endpoint = "reservations"
  /\ \/ req[c].pc = "checked"
     \/ Done(c) /\ req[c].status \in {201, 409}
     \/ Done(c) /\ req[c].fault \in {"insert raised", "insert returned no row"}

SameSlot(c, d) ==
  /\ req[c].body.restaurant_id = req[d].body.restaurant_id
  /\ req[c].body.date = req[d].body.date
  /\ req[c].body.time = req[d].body.time

\* Client c read the table before client d inserted into it.
ReadBeforeInsertOf(c, d) == req[d].inserted = 0 \/ req[d].row > req[c].rows_read

\* C18: nothing locks a slot between the capacity test and the insert: of
\* two reservation requests for one restaurant, date and time that both
\* read the reservations before either inserts, and each of which fits
\* into what it read, neither is refused for capacity and each whose
\* insert returns its row is answered 201, whatever the two add up to.
C18_ConcurrentReservationsBothAccepted ==
  \A c, d \in Clients :
     (/\ c # d
      /\ HasRead(c) /\ HasRead(d)
      /\ SameSlot(c, d)
      /\ ReadBeforeInsertOf(c, d) /\ ReadBeforeInsertOf(d, c)
      /\ req[c].capacity # NULL
      /\ Fits(c) /\ Fits(d))
     => /\ req[c].status # 409
        /\ (Done(c) /\ req[c].fault = "") => (req[c].status = 201 /\ RowInserted(c))

\* Both requests answered 201 and the slot holds more than the capacity.
C18_Witness ==
  \E c, d \in Clients :
     /\ c # d
     /\ ValidReservationDone(c) /\ ValidReservationDone(d)
     /\ SameSlot(c, d)
     /\ ReadBeforeInsertOf(c, d) /\ ReadBeforeInsertOf(d, c)
     /\ req[c].status = 201 /\ req[d].status = 201
     /\ SumPartySize(ReservationsAt(reservations, req[c].body)) > req[c].capacity

(* ------------------------- fallback_used ------------------------------- *)
\* The preferences of the request in args without cuisine, city and price.
RatingPreferenceOnly ==
  [k \in DOMAIN args.preferences \cap {"min_rating"} |-> args.preferences[k]]

\* C26: fallback_used is False exactly when the primary query returned at
\* least one restaurant and scoring raised nothing; otherwise it is True
\* and the restaurants returned are those the same request returns without
\* its cuisine, city and price preference.
C26_FallbackUsedExactlyWhenPrimaryFails ==
  IsRequest =>
     /\ out.fallback_used = FALSE <=> args.primary = "scored"
     /\ out.fallback_used = FALSE =>
          (/\ ~args.fail.primary
           /\ PrimaryRows # <<>>
           /\ \A i \in 1..Len(PrimaryRows) : ~ScoreRaises(PrimaryRows[i], args.preferences))
     /\ out.fallback_used = TRUE =>
          Ids(out.recommendations)
            = IF out.message.template = "Unable to load recommendations at this time"
                THEN <<>>
              ELSE IF out.message.template = "Here are some popular restaurants you might enjoy"
                THEN Ids(Strategy2(store, args.limit, args.fail,
                                   args.elapsed).recommendations)
              ELSE Ids(Strategy1(store, RatingPreferenceOnly, args.limit, args.fail,
                                 args.elapsed).recommendations)

\* An empty primary result for a cuisine and city preference; the fallback
\* returns a restaurant of another cuisine and another city.
C26_Witness ==
  /\ IsRequest
  /\ ~args.fail.primary
  /\ Has(args.preferences, "cuisine") /\ Has(args.preferences, "city")
  /\ args.primary = "no restaurants"
  /\ out.fallback_used = TRUE
  /\ \E i \in 1..Len(out.recommendations) :
        /\ ~ILike(out.recommendations[i].cuisine, args.preferences.cuisine)
        /\ ~ILike(out.recommendations[i].city, args.preferences.city)

(* ------------------- capacity under sequential requests ---------------- *)
\* The slots (restaurant, date, time) that hold a reservation.
BookedSlots ==
  { [restaurant_id |-> r.restaurant_id, date |-> r.reservation_date,
     time |-> r.reservation_time] : r \in Range(reservations) }

\* C25: under requests to POST /api/reservations that do not overlap,
\* starting from a table in which no slot is over capacity, the party
\* sizes reserved for a restaurant, date and time never add up to more
\* than the restaurant's capacity.
C25_SequentialRequestsKeepCapacity ==
  \A slot \in BookedSlots :
     \A i \in 1..Len(store) :
        (IdText(store[i].id) = slot.restaurant_id /\ store[i].capacity # NULL) =>
           SumPartySize(ReservationsAt(reservations, slot)) <= store[i].capacity

\* A request answered 201 took the last seats of its slot: the slot holds
\* two reservations that add up to the capacity.
C25_Witness ==
  \E c \in Clients :
     /\ Done(c)
     /\ req[c].status = 201
     /\ req[c].total_reserved > 0
     /\ Len(ReservationsAt(reservations, req[c].body)) = 2
     /\ SumPartySize(ReservationsAt(reservations, req[c].body)) = req[c].capacity

(* ----------------------------- agent claims ---------------------------- *)
\* The API was asked and answered 200 or 201 in the _call_api just made.
ApiAnswered ==
  /\ agent.use_api_first /\ agent.api_available
  /\ args.api # "raises"
  /\ out.response.status \in {200, 201}

SupabaseConsulted == \E i \in 1..Len(out.calls) : out.calls[i].via = "supabase"

ApiRequested == \E i \in 1..Len(out.calls) : out.calls[i].via = "api"

\* C22: after _call_api, if the API was preferred, marked available, did
\* not raise and answered 200 or 201, the result is its JSON (for a
\* reservation the row the handler inserted, under the restaurant's name;
\* for every other endpoint the handler's answer beside the table it read)
\* and Supabase was not consulted; in every other case the result is what
\* the Supabase fallback returns for the endpoint beside the table it
\* found, which is None when the database is not initialized or the
\* endpoint is unknown.
C22_CallApiFallsBack ==
  op = "_call_api" =>
    IF ApiAnswered
    THEN /\ out.result = out.response.json
         /\ IF args.endpoint = "reservations"
              THEN /\ Len(out.written) = 1
                   /\ WithoutKey(out.result.data, "restaurant_name") = out.written[1]
            ELSE out.result = ApiAnswer(args.endpoint, args.params, args.method, store,
                                        out.found, args.api = "store raises").json
         /\ ~SupabaseConsulted
    ELSE /\ out.result = _supabase_fallback(agent, args.endpoint, args.params, store,
                                            out.found, args.db).result
         /\ (~agent.db_initialized \/ args.endpoint = "menus") => out.result = NoneResult

\* The API refused a reservation with 409 and the fallback's result is
\* returned.
C22_Witness ==
  /\ op = "_call_api"
  /\ args.endpoint = "reservations" /\ args.method = "POST" /\ args.api = "answers"
  /\ ApiRequested /\ SupabaseConsulted
  /\ out.response.status = 409
  /\ out.result.success /\ out.result.source = "supabase"

\* The texts with which a tool reports that it did not do what was asked.
FailureTexts ==
  { NoRestaurantsFound.text,
    "Unable to check availability. Please try again or contact the restaurant directly.",
    "Could not access restaurant database. Please try again.",
    "Restaurant not found", "Missing required field", "Error creating reservation",
    "Reservation failed",
    "I couldn't generate recommendations right now. Please try browsing our restaurant collection.",
    "Error executing", "Unknown tool" }

\* Neither the API nor the store gives the tool's first _call_api a result:
\* the API is not asked, raises or answers while its store raises, and the
\* database is not initialized or raises.
FirstCallFails ==
  /\ ~(agent.use_api_first /\ agent.api_available) \/ args.api \in {"raises", "store raises"}
  /\ ~agent.db_initialized \/ args.db = "raises"

\* C23: _process_tool returns a string whatever happens; an unknown tool
\* name gives the "Unknown tool" message and no API or store call is made;
\* a known tool whose API and store calls fail gives a failure message,
\* the search tool its "No restaurants found" message.
C23_ProcessToolAlwaysAnswers ==
  op = "_process_tool" =>
    /\ "text" \in DOMAIN out.message
    /\ args.tool_name \notin ToolNames
         => out.message.text = "Unknown tool" /\ out.calls = <<>>
    /\ (args.tool_name \in ToolNames /\ FirstCallFails)
         => /\ out.message.text \in FailureTexts
            /\ args.tool_name = "search_restaurants" => out.message = NoRestaurantsFound

\* The reservation tool raised at restaurant_name.lower() and the caller
\* got a message.
C23_Witness ==
  /\ op = "_process_tool"
  /\ args.tool_name = "create_reservation"
  /\ "restaurant_name" \in DOMAIN args.parameters
  /\ args.parameters.restaurant_name = None
  /\ out.message.text = "Error executing"
  /\ out.calls # <<>>

\* The _call_api just made ran the Supabase insert, and the store took it.
FallbackInserted ==
  /\ op = "_call_api"
  /\ args.endpoint = "reservations"
  /\ SupabaseConsulted
  /\ args.db = "row"

\* The API, asked the same request beside the table the fallback found,
\* answers 201.
ApiWouldAccept ==
  create_reservation(args.params, store, out.found, FALSE).status = 201

\* C24: beside the same store and for the same request the Supabase
\* fallback accepts a reservation exactly when the API would.
C24_FallbackAcceptsWhenApiWould ==
  FallbackInserted => (Succeeded(out.result) <=> ApiWouldAccept)

\* The lookup of the reservation tool just run gave restaurants.
LookupSucceeded ==
  Get(_call_api(agent, "restaurants", <<>>, "GET", args.api, args.db, store,
                reservations).result, "data", <<>>) # <<>>

\* One of the restaurants has the requested name, ignoring case.
RestaurantNamed ==
  /\ "restaurant_name" \in DOMAIN args.parameters
  /\ args.parameters.restaurant_name # None
  /\ \E i \in 1..Len(store) : Lower(store[i].name) = Lower(args.parameters.restaurant_name)

\* The five required parameters are present and not empty.
RequiredFieldsGiven ==
  \A i \in 1..Len(required_fields) :
     /\ required_fields[i] \in DOMAIN args.parameters
     /\ args.parameters[required_fields[i]] \notin FalsyParameter(required_fields[i])

\* A reservation was sent to the API or inserted through Supabase.
ReservationSubmitted ==
  \E i \in 1..Len(out.calls) : out.calls[i].endpoint = "reservations"

\* C29: the reservation tool submits a reservation only after a lookup
\* that gave restaurants, with a restaurant of the requested name
\* (ignoring case) and all five required fields given; in every other
\* case it returns a failure message and has written no row.
C29_SubmitsOnlyCompleteReservations ==
  (op = "_process_tool" /\ args.tool_name = "create_reservation") =>
     /\ ReservationSubmitted => (LookupSucceeded /\ RestaurantNamed /\ RequiredFieldsGiven)
     /\ ~(LookupSucceeded /\ RestaurantNamed /\ RequiredFieldsGiven)
          => /\ out.message.text \in FailureTexts
             /\ out.written = <<>>
             /\ ~ReservationSubmitted

\* A reservation asked for "bella" was confirmed at Bella and written.
C29_Witness ==
  /\ op = "_process_tool"
  /\ args.tool_name = "create_reservation"
  /\ "restaurant_name" \in DOMAIN args.parameters
  /\ args.parameters.restaurant_name = bella
  /\ ReservationSubmitted
  /\ out.message.text = "Reservation confirmed"
  /\ Len(out.written) = 1
  /\ out.written[1] = reservations[Len(reservations)]

(* ------------------------------ chat claims ---------------------------- *)
\* Every chat call so far was answered in words, and none was a reset.
OnlyPlainTurns == history # <<>> /\ \A i \in 1..Len(history) : history[i] = "plain"

\* C21: from a new agent, after n chat calls that the model answered
\* without a tool call, the context holds exactly 2n messages: user,
\* assistant, user, assistant, ... with a user message first.
C21_PlainTurnsGiveTwoMessagesEach ==
  OnlyPlainTurns =>
    /\ Len(context) = 2 * Len(history)
    /\ \A i \in 1..Len(context) :
          context[i].role = IF i % 2 = 1 THEN "user" ELSE "assistant"

SystemPrompts(messages) == { i \in 1..Len(messages) : messages[i].role = "system" }

\* C27: whatever chat and reset_conversation calls were made, the context
\* starts with the system prompt and holds it exactly once, and the
\* context a chat call sends with its first completion request holds at
\* most 15 messages.
C27_SystemPromptFirstAndOnce ==
  /\ [](context[1] = system_prompt /\ SystemPrompts(context) = {1})
  /\ [][\A c \in Clients : FirstRequest(c) => Len(context) <= 15]_vars

\* The tool message at position i of messages comes after an assistant
\* message that carries its tool call.
Answered(messages, i) ==
  \E j \in 1..(i - 1) :
     /\ messages[j].role = "assistant"
     /\ "tool_calls" \in DOMAIN messages[j]
     /\ \E k \in 1..Len(messages[j].tool_calls) :
           messages[j].tool_calls[k] = messages[i].tool_call_id

\* C28: in every context sent to the model, with the first or the final
\* completion request of a chat call, each tool message comes after the
\* assistant message that carries its tool call.
C28_ToolMessagesFollowTheirCall ==
  [][\A c \in Clients :
        (FirstRequest(c) \/ FinalRequest(c)) =>
           \A i \in 1..Len(context) :
              context[i].role = "tool" => Answered(context, i)]_vars

(* --------------------------- Streamlit claims -------------------------- *)
\* The request of args has the method, endpoint and data of the cached key.
SameAsCached ==
  /\ args.session.last_api_call # <<>>
  /\ \E i \in 1..Len(history) :
        /\ cache_key(history[i].request.method, history[i].request.endpoint,
                     history[i].request.data) = args.session.last_api_call
        /\ history[i].request = args.request

\* The server answers the request of args with 200 or 201.
AnsweredOk ==
  /\ args.request.method \in {"GET", "POST"}
  /\ "status" \in DOMAIN args.response
  /\ args.response.status \in {200, 201}

\* C30: whenever no call is between its two writes, the cached result is
\* the JSON of a 200 or 201 answer to a request with the cached key; a
\* call that is not answered 200 or 201 leaves last_api_call and
\* last_api_result as they were, one that is sets both; and a call whose
\* method, endpoint and data are those of the cached key returns the
\* cached result and sends nothing.
C30_CachedResultBelongsToCachedKey ==
  /\ op # "make_api_request under way" =>
       IF session.last_api_call = <<>> THEN session.last_api_result = NoneResult
       ELSE \E i \in 1..Len(history) :
               /\ cache_key(history[i].request.method, history[i].request.endpoint,
                            history[i].request.data) = session.last_api_call
               /\ "status" \in DOMAIN history[i].response
               /\ history[i].response.status \in {200, 201}
               /\ history[i].response.json = session.last_api_result
  /\ op = "make_api_request" =>
       IF SameAsCached
         THEN ~out.sent /\ out.result = args.session.last_api_result
              /\ session = args.session
       ELSE IF AnsweredOk
         THEN session = [last_api_call |-> cache_key(args.request.method,
                                                     args.request.endpoint,
                                                     args.request.data),
                         last_api_result |-> args.response.json]
              /\ out.result = args.response.json
       ELSE session = args.session /\ out.result = NoneResult

====
